---- MODULE Spec2Model ----
(***************************************************************************)
(* A model of the meeting-transcript orchestrator: the invocation          *)
(* entrypoint (app.py), the coordinator (agents/orchestrator.py) with its  *)
(* lazily created decision-making session and its four routing tools, and  *)
(* the capability handlers it calls.                                       *)
(*                                                                         *)
(* A text is a sequence of atoms.  An atom is one character of a caller's  *)
(* string (" " and "a" stand for a whitespace and a non-whitespace         *)
(* character) or one literal chunk of the program (a label, "\n", a fixed  *)
(* message).  Concatenation is \o, as Python's + and f-strings are.        *)
(***************************************************************************)
EXTENDS Integers, Sequences, FiniteSets, TLC

\* ------------------------------------------------------------------ bounds

\* Longest caller-supplied string (sub-queries of a tool call).
MaxLen == 2
\* Most tool calls the decision-making session issues for one transcript.
MaxToolCalls == 1
\* Most route calls one client thread makes on the shared coordinator.
MaxCalls == 2
\* Most requests the entrypoint serves.
MaxRequests == 2
\* Most calls of send_sns_email in a run.
MaxMails == 2
\* Longest participants list create_meeting_ics is called with.
MaxParticipants == 2

VARIABLES
    toolCall,     \* the tool call under test: tool name and arguments
    handlerOut,   \* what each handler's query() does during that call
    toolResult,   \* what the tool call ended in
    coords,       \* the OrchestratorAgent objects constructed so far
    agents,       \* the decision-making sessions (Agent objects) constructed so far
    frames,       \* per thread: the activation of OrchestratorAgent.query
    epc,          \* the entrypoint's position
    payload,      \* the request being served
    eexc,         \* the exception caught at the entrypoint, if any
    eret,         \* what agent_invocation ended in
    served,       \* requests served so far
    mail,         \* the activation of send_sns_email
    published,    \* the publish requests issued to SNS so far
    ticket,       \* the activation of create_jira_ticket
    meeting,      \* the activation of create_meeting_ics
    envFile,      \* the environment file (.env)
    tempFile,     \* the temporary file update_env_section writes (.env.tmp)
    backups,      \* the backup copies of the environment file made so far
    update,       \* the activation of update_env_section
    deploy        \* the deployment script's position and what it ran

toolVars == <<toolCall, handlerOut, toolResult>>
coordVars == <<coords, agents, frames>>
entryVars == <<epc, payload, eexc, eret, served>>
handlerVars == <<mail, published, ticket, meeting>>
deployVars == <<envFile, tempFile, backups, update, deploy>>
leafVars == <<mail, published, ticket, meeting,
              envFile, tempFile, backups, update, deploy>>
vars == <<toolCall, handlerOut, toolResult, coords, agents, frames,
          epc, payload, eexc, eret, served, mail, published, ticket, meeting,
          envFile, tempFile, backups, update, deploy>>

\* ------------------------------------------------------------------- texts

Whitespace == {" "}
Chars == {" ", "a"}

RECURSIVE TextsUpTo(_)
TextsUpTo(n) ==
    IF n = 0 THEN {<<>>}
    ELSE LET shorter == TextsUpTo(n - 1)
         IN shorter \cup {Append(s, c) : s \in {x \in shorter : Len(x) = n - 1}, c \in Chars}

Texts == TextsUpTo(MaxLen)

NL == "\n"

\* Python truthiness of a str: the empty string is false.
Truthy(s) == Len(s) > 0

RECURSIVE lstrip(_)
lstrip(s) ==
    IF s = <<>> THEN s
    ELSE IF Head(s) \in Whitespace THEN lstrip(Tail(s)) ELSE s

RECURSIVE rstrip(_)
rstrip(s) ==
    IF s = <<>> THEN s
    ELSE IF s[Len(s)] \in Whitespace THEN rstrip(SubSeq(s, 1, Len(s) - 1)) ELSE s

\* str.strip(): leading and trailing whitespace removed.
strip(s) == rstrip(lstrip(s))

\* sep.join(parts)
RECURSIVE join(_, _)
join(sep, parts) ==
    IF parts = <<>> THEN <<>>
    ELSE IF Len(parts) = 1 THEN parts[1]
    ELSE parts[1] \o sep \o join(sep, Tail(parts))

\* ---------------------------------------------------------------- handlers

\* The three capability handlers the coordinator holds (self.jira_agent,
\* self.meetings_agent, self.email_agent).
Handlers == {"jira_agent", "meetings_agent", "email_agent"}

\* What one handler's query() can do: return the text of its own session
\* (str(result)), which may itself report a failure (the notification tool
\* reports a publish failure inside its result), or raise (its model call
\* fails).
OkText == <<"done">>
FailedText == <<"Failed to publish email to SNS">>
HandlerError == <<"handler model call failed">>

HandlerOutcomes ==
    {[kind |-> "return", text |-> OkText],
     [kind |-> "return", text |-> FailedText],
     [kind |-> "raise", text |-> HandlerError]}

\* State of a tool body while it runs: the results list, the log of handler
\* invocations (call, then return or raise), and the exception in flight.
ToolStart ==
    [results |-> <<>>, events |-> <<>>, raised |-> FALSE,
     exc |-> <<>>, response |-> <<>>]

\* response = self.<handler>.query(query)
HandlerQuery(st, handler, query, out) ==
    LET called == Append(st.events, [agent |-> handler, ev |-> "call", text |-> query])
    IN IF out[handler].kind = "raise"
       THEN [st EXCEPT !.events = Append(called, [agent |-> handler, ev |-> "raise",
                                                  text |-> out[handler].text]),
                       !.raised = TRUE,
                       !.exc = out[handler].text]
       ELSE [st EXCEPT !.events = Append(called, [agent |-> handler, ev |-> "return",
                                                  text |-> out[handler].text]),
                       !.response = out[handler].text]

\* ------------------------------------------------------------------- tools

SingleTools == {"jira_tickets", "set_meeting", "send_email"}

\* The handler each single-handler tool wraps, and the label it puts first.
ToolHandler(tool) ==
    CASE tool = "jira_tickets" -> "jira_agent"
      [] tool = "set_meeting"  -> "meetings_agent"
      [] tool = "send_email"   -> "email_agent"

ToolLabel(tool) ==
    CASE tool = "jira_tickets" -> "[Jira tickets creation]"
      [] tool = "set_meeting"  -> "[Meeting setting]"
      [] tool = "send_email"   -> "[Email sending]"

\* The label coordinate_analysis puts before each handler's response.
AnalysisLabel(handler) ==
    CASE handler = "jira_agent"     -> "[Jira tickets creation]"
      [] handler = "meetings_agent" -> "[Set up follow up meeting]"
      [] handler = "email_agent"    -> "[Send Emailss]"

NothingRequested == <<"No analysis was requested. Please specify at least one query.">>

\* What a tool call ends in.
Returned(st, value) == [status |-> "returned", value |-> value, events |-> st.events]
Raised(st) == [status |-> "raised", value |-> st.exc, events |-> st.events]

SingleToolUnlabelled(tool, query, out) ==
    LET st == HandlerQuery(ToolStart, ToolHandler(tool), query, out)
    IN IF st.raised THEN Raised(st) ELSE Returned(st, st.response)

\* jira_tickets(query), set_meeting(query), send_email(query)
SingleTool(tool, query, out) ==
    LET st == HandlerQuery(ToolStart, ToolHandler(tool), query, out)
    IN IF st.raised THEN Raised(st)
       ELSE Returned(st, <<ToolLabel(tool), NL>> \o st.response)

RequestedNoStrip(query) == Truthy(query)

\* `if q and q.strip()`
Requested(query) == Truthy(query) /\ Truthy(strip(query))

AnalysisBlockStopsAtReportedFailure(st, query, handler, out) ==
    IF st.raised \/ ~Requested(query) \/ st.response = FailedText THEN st
    ELSE LET h == HandlerQuery(st, handler, query, out)
         IN IF h.raised THEN h
            ELSE [h EXCEPT !.results =
                      Append(@, <<AnalysisLabel(handler), NL>> \o h.response)]

\* One `if ...: response = handler.query(q); results.append(label + response)`
\* block of coordinate_analysis; skipped once an exception is in flight.
AnalysisBlock(st, query, handler, out) ==
    IF st.raised \/ ~Requested(query) THEN st
    ELSE LET h == HandlerQuery(st, handler, query, out)
         IN IF h.raised THEN h
            ELSE [h EXCEPT !.results =
                      Append(@, <<AnalysisLabel(handler), NL>> \o h.response)]

JoinResultsOneNewline(results) == join(<<NL>>, results)

\* "\n\n".join(results)
JoinResults(results) == join(<<NL, NL>>, results)

AnalysisReturnAlwaysJoin(st) == Returned(st, JoinResults(st.results))

\* `if not results: return <fixed text>` / `return "\n\n".join(results)`
AnalysisReturn(st) ==
    IF st.results = <<>> THEN Returned(st, NothingRequested)
    ELSE Returned(st, JoinResults(st.results))

coordinate_analysisRepeatsFirst(inventory_query, sales_query, market_query, out) ==
    LET s1 == AnalysisBlock(ToolStart, inventory_query, "jira_agent", out)
        s2 == AnalysisBlock(s1, sales_query, "meetings_agent", out)
        s3 == AnalysisBlock(s2, market_query, "jira_agent", out)
    IN IF s3.raised THEN Raised(s3) ELSE AnalysisReturn(s3)

coordinate_analysis(inventory_query, sales_query, market_query, out) ==
    LET s1 == AnalysisBlock(ToolStart, inventory_query, "jira_agent", out)
        s2 == AnalysisBlock(s1, sales_query, "meetings_agent", out)
        s3 == AnalysisBlock(s2, market_query, "email_agent", out)
    IN IF s3.raised THEN Raised(s3) ELSE AnalysisReturn(s3)

\* A tool call as the session issues it: the tool's name and its arguments.
SingleCalls == [tool : SingleTools, query : Texts]
AnalysisCalls ==
    [tool : {"coordinate_analysis"}, inventory_query : Texts,
     sales_query : Texts, market_query : Texts]
ToolCalls == SingleCalls \cup AnalysisCalls

RunTool(call, out) ==
    IF call.tool = "coordinate_analysis"
    THEN coordinate_analysis(call.inventory_query, call.sales_query,
                             call.market_query, out)
    ELSE SingleTool(call.tool, call.query, out)

\* ------------------------------------------------- the tools on their own

NoCall == [tool |-> "none"]
Pending == [status |-> "pending", value |-> <<>>, events |-> <<>>]

\* One call of one routing tool with the given arguments and handler behaviour.
InvokeTool ==
    /\ toolResult = Pending
    /\ toolCall # NoCall
    /\ toolResult' = RunTool(toolCall, handlerOut)
    /\ UNCHANGED <<toolCall, handlerOut, coordVars, entryVars, leafVars>>

\* ------------------------------------------------------------- coordinator

Threads == {"t1", "t2"}

\* Transcripts handed to query: empty, whitespace-only, and with content.
Prompts == {<<>>, <<" ">>, <<"a">>}

\* None, as the value of self.agent and as a function's result.
None == 0

\* OrchestratorAgent.__init__: three handlers of its own and no session yet.
NewCoordinator(id) ==
    [jira_agent |-> <<id, "jira_agent">>,
     meetings_agent |-> <<id, "meetings_agent">>,
     email_agent |-> <<id, "email_agent">>,
     agent |-> None]

SystemPrompt == "orchestrator policy: ALWAYS route queries to the specialized agents"

\* _create_tools(): the four tools handed to the session.
CreateTools == {"jira_tickets", "set_meeting", "send_email", "coordinate_analysis"}

\* Agent(model=..., system_prompt=..., tools=all_tools), built for coordinator c.
NewAgent(c) ==
    [owner |-> c, system_prompt |-> SystemPrompt, tools |-> CreateTools,
     messages |-> <<>>]

NoResult == [kind |-> "pending", value |-> <<>>]

IdleFrame ==
    [pc |-> "idle", coord |-> None, prompt |-> <<>>, created |-> None,
     session |-> None, tools |-> <<>>, result |-> NoResult, calls |-> 0]

\* query(prompt) is entered on coordinator c.
EnterQuery(f, c, prompt) ==
    [f EXCEPT !.pc = "check", !.coord = c, !.prompt = prompt, !.created = None,
              !.session = None, !.tools = <<>>, !.result = NoResult]

\* A client thread calls query on the shared coordinator.
QueryCall(t) ==
    /\ frames[t].pc = "idle"
    /\ frames[t].calls < MaxCalls
    /\ Len(coords) = 1
    /\ \E prompt \in Prompts :
           frames' = [frames EXCEPT ![t] = EnterQuery(@, 1, prompt)]
    /\ UNCHANGED <<coords, agents, toolVars, entryVars, leafVars>>

\* The body of query that an already set self.agent leaves: every statement
\* after the test is inside the `if`, so the function ends without a return.
SessionPresent(f) == [f EXCEPT !.pc = "done", !.result = [kind |-> "none", value |-> <<>>]]

\* `if not self.agent:`
QueryCheck(t) ==
    /\ frames[t].pc = "check"
    /\ frames' = [frames EXCEPT ![t] =
                     IF coords[@.coord].agent = None
                     THEN [@ EXCEPT !.pc = "create"]
                     ELSE SessionPresent(@)]
    /\ UNCHANGED <<coords, agents, toolVars, entryVars, leafVars>>

\* all_tools = self._create_tools(); Agent(...) is constructed
QueryCreate(t) ==
    /\ frames[t].pc = "create"
    /\ agents' = Append(agents, NewAgent(frames[t].coord))
    /\ frames' = [frames EXCEPT ![t] = [@ EXCEPT !.pc = "assign",
                                                 !.created = Len(agents) + 1]]
    /\ UNCHANGED <<coords, toolVars, entryVars, leafVars>>

\* self.agent = <the Agent just constructed>
QueryAssign(t) ==
    /\ frames[t].pc = "assign"
    /\ coords' = [coords EXCEPT ![frames[t].coord].agent = frames[t].created]
    /\ frames' = [frames EXCEPT ![t].pc = "call"]
    /\ UNCHANGED <<agents, toolVars, entryVars, leafVars>>

ReceiveNothing(agent, prompt) == agent

\* The session receives the transcript as its next user message.
Receive(agent, prompt) == [agent EXCEPT !.messages = Append(@, prompt)]

\* result = self.agent(prompt): self.agent is read again and called
QueryInvoke(t) ==
    /\ frames[t].pc = "call"
    /\ LET a == coords[frames[t].coord].agent
       IN /\ agents' = [agents EXCEPT ![a] = Receive(@, frames[t].prompt)]
          /\ frames' = [frames EXCEPT ![t] = [@ EXCEPT !.pc = "running", !.session = a]]
    /\ UNCHANGED <<coords, toolVars, entryVars, leafVars>>

\* The arguments the decision-making process may pass to a tool.
SessionTexts == {<<>>, <<"a">>}
SessionCalls ==
    [tool : SingleTools, query : SessionTexts]
    \cup [tool : {"coordinate_analysis"}, inventory_query : SessionTexts,
          sales_query : SessionTexts, market_query : SessionTexts]

\* In a session the handlers either answer or raise.
SessionOutcomes == {o \in HandlerOutcomes : o.text # FailedText}

\* The handler invocations of a tool call, in order, each with how it ended.
InvokedBy(result) ==
    LET ends == SelectSeq(result.events, LAMBDA e : e.ev # "call")
    IN [i \in 1..Len(ends) |-> [agent |-> ends[i].agent, ev |-> ends[i].ev]]

Labels ==
    {ToolLabel(tool) : tool \in SingleTools} \cup {AnalysisLabel(h) : h \in Handlers}

\* The labelled sections in the text a tool call returned to the session.
SectionsIn(result) ==
    IF result.status = "returned"
    THEN Len(SelectSeq(result.value, LAMBDA x : x \in Labels))
    ELSE 0

\* What a frame keeps of one tool call of its session.
ToolTrace(result) ==
    [status |-> result.status, invoked |-> InvokedBy(result),
     sections |-> SectionsIn(result)]

\* The decision-making process chooses a tool and its arguments; the tool
\* runs, and its text (or its error) goes back to the session.
SessionToolCall(t) ==
    /\ frames[t].pc = "running"
    /\ Len(frames[t].tools) < MaxToolCalls
    /\ \E call \in SessionCalls, out \in [Handlers -> SessionOutcomes] :
          /\ call.tool \in agents[frames[t].session].tools
          /\ LET result == RunTool(call, out)
             IN frames' = [frames EXCEPT ![t].tools = Append(@, ToolTrace(result))]
    /\ UNCHANGED <<coords, agents, toolVars, entryVars, leafVars>>

\* The final texts the decision-making process may answer with.
FinalTexts == {<<"summary">>, <<"[Jira tickets creation]", NL, "done">>}

\* return str(result)
QueryReturn(f, text) == [f EXCEPT !.pc = "done", !.result = [kind |-> "text", value |-> text]]

SessionAnswer(t) ==
    /\ frames[t].pc = "running"
    /\ \E text \in FinalTexts :
           frames' = [frames EXCEPT ![t] = QueryReturn(@, text)]
    /\ UNCHANGED <<coords, agents, toolVars, entryVars, leafVars>>

DispatchError == <<"model call failed">>

\* The decision-making process fails inside self.agent(prompt): the call
\* raises in the frame of query.
SessionFail(t) ==
    /\ frames[t].pc = "running"
    /\ frames' = [frames EXCEPT ![t] =
                     [@ EXCEPT !.pc = "unwind",
                               !.result = [kind |-> "raise", value |-> DispatchError]]]
    /\ UNCHANGED <<coords, agents, toolVars, entryVars, leafVars>>

UnwindReturnsPartial(f) ==
    [f EXCEPT !.pc = "done",
              !.result = [kind |-> "text",
                          value |-> [k \in 1..Len(f.tools) |-> "section"]]]

\* query has no handler around the call: the exception in flight leaves it
\* as it is, and nothing is returned.
Unwind(f) == [f EXCEPT !.pc = "done"]

QueryUnwind(t) ==
    /\ frames[t].pc = "unwind"
    /\ frames' = [frames EXCEPT ![t] = Unwind(@)]
    /\ UNCHANGED <<coords, agents, toolVars, entryVars, leafVars>>

\* The client thread has the outcome of its call and may call again.
QueryDone(t) ==
    /\ frames[t].pc = "done"
    /\ frames' = [frames EXCEPT ![t] = [IdleFrame EXCEPT !.calls = frames[t].calls + 1]]
    /\ UNCHANGED <<coords, agents, toolVars, entryVars, leafVars>>

QueryStep(t) ==
    \/ QueryCheck(t)
    \/ QueryCreate(t)
    \/ QueryAssign(t)
    \/ QueryInvoke(t)
    \/ SessionToolCall(t)
    \/ SessionAnswer(t)
    \/ SessionFail(t)
    \/ QueryUnwind(t)

\* -------------------------------------------------------------- entrypoint

\* The request payloads: a JSON list (it has no .get) and dicts.  A dict has
\* no "prompt", or a string, or the number 0 or 5 as its "prompt"; it may hold
\* a value json.dumps cannot serialise.
PromptFields ==
    {[type |-> "absent"],
     [type |-> "int", truthy |-> FALSE],
     [type |-> "int", truthy |-> TRUE]}
    \cup {[type |-> "str", text |-> p] : p \in Prompts}

Payloads ==
    {[kind |-> "list"]}
    \cup {[kind |-> "dict", prompt |-> f, serializable |-> b] :
              f \in PromptFields, b \in BOOLEAN}

NoPayload == [kind |-> "none"]
NoException == [at |-> "none", msg |-> <<>>]

\* payload.get("prompt", "")
GetPrompt(p) ==
    IF p.prompt.type = "absent" THEN [type |-> "str", text |-> <<>>] ELSE p.prompt

NeverFalsy(v) == FALSE

\* `not user_input`
Falsy(v) == IF v.type = "str" THEN ~Truthy(v.text) ELSE ~v.truthy

NoPromptError == <<"Error: ", "No prompt provided in payload">>

ReraiseError(msg) == [kind |-> "raise", value |-> msg]

\* `except Exception as e: return f"Error: {str(e)}"`
ErrorString(msg) == [kind |-> "text", value |-> <<"Error: ">> \o msg]

\* A request arrives.
EntryReceive ==
    /\ epc = "idle"
    /\ served < MaxRequests
    /\ \E p \in Payloads : payload' = p
    /\ epc' = "log"
    /\ eexc' = NoException
    /\ eret' = NoResult
    /\ UNCHANGED <<served, coordVars, toolVars, leafVars>>

\* logger.info(f"Payload: {json.dumps(payload, indent=2)}")
EntryLog ==
    /\ epc = "log"
    /\ IF payload.kind = "dict" /\ ~payload.serializable
       THEN /\ epc' = "except"
            /\ eexc' = [at |-> "log", msg |-> <<"Object is not JSON serializable">>]
       ELSE /\ epc' = "extract"
            /\ UNCHANGED eexc
    /\ UNCHANGED <<payload, eret, served, coordVars, toolVars, leafVars>>

\* user_input = payload.get("prompt", ""); if not user_input: return "Error: ..."
EntryExtract ==
    /\ epc = "extract"
    /\ IF payload.kind # "dict"
       THEN /\ epc' = "except"
            /\ eexc' = [at |-> "extract", msg |-> <<"object has no attribute 'get'">>]
            /\ UNCHANGED eret
       ELSE IF Falsy(GetPrompt(payload))
       THEN /\ epc' = "done"
            /\ eret' = [kind |-> "text", value |-> NoPromptError]
            /\ UNCHANGED eexc
       ELSE /\ epc' = "construct"
            /\ UNCHANGED <<eexc, eret>>
    /\ UNCHANGED <<payload, served, coordVars, toolVars, leafVars>>

ConstructError == <<"could not construct the orchestrator">>

EntryConstructShared ==
    /\ epc = "construct"
    /\ \/ /\ epc' = "except"
          /\ eexc' = [at |-> "construct", msg |-> ConstructError]
          /\ UNCHANGED <<coords, frames>>
       \/ /\ coords' = IF coords = <<>> THEN <<NewCoordinator(1)>> ELSE coords
          /\ IF GetPrompt(payload).type # "str"
             THEN /\ epc' = "except"
                  /\ eexc' = [at |-> "slice", msg |-> <<"object is not subscriptable">>]
                  /\ UNCHANGED frames
             ELSE /\ epc' = "query"
                  /\ frames' = [frames EXCEPT !["t1"] =
                                   EnterQuery(@, 1, GetPrompt(payload).text)]
                  /\ UNCHANGED eexc
    /\ UNCHANGED <<payload, eret, served, agents, toolVars, leafVars>>

\* orchestrator = import_orchestrator_agent(); enhanced_prompt[:100];
\* orchestrator.query(enhanced_prompt) is entered
EntryConstruct ==
    /\ epc = "construct"
    /\ \/ /\ epc' = "except"
          /\ eexc' = [at |-> "construct", msg |-> ConstructError]
          /\ UNCHANGED <<coords, frames>>
       \/ /\ coords' = Append(coords, NewCoordinator(Len(coords) + 1))
          /\ IF GetPrompt(payload).type # "str"
             THEN /\ epc' = "except"
                  /\ eexc' = [at |-> "slice", msg |-> <<"object is not subscriptable">>]
                  /\ UNCHANGED frames
             ELSE /\ epc' = "query"
                  /\ frames' = [frames EXCEPT !["t1"] =
                                   EnterQuery(@, Len(coords) + 1, GetPrompt(payload).text)]
                  /\ UNCHANGED eexc
    /\ UNCHANGED <<payload, eret, served, agents, toolVars, leafVars>>

\* response = orchestrator.query(...) has ended; len(response); return str(response)
EntryResponse ==
    /\ epc = "query"
    /\ frames["t1"].pc = "done"
    /\ LET r == frames["t1"].result
       IN CASE r.kind = "raise" ->
                 /\ epc' = "except"
                 /\ eexc' = [at |-> "query", msg |-> r.value]
                 /\ UNCHANGED eret
            [] r.kind = "none" ->
                 /\ epc' = "except"
                 /\ eexc' = [at |-> "response", msg |-> <<"object of type 'NoneType' has no len()">>]
                 /\ UNCHANGED eret
            [] r.kind = "text" ->
                 /\ epc' = "done"
                 /\ eret' = [kind |-> "text", value |-> r.value]
                 /\ UNCHANGED eexc
    /\ frames' = [frames EXCEPT !["t1"] = IdleFrame]
    /\ UNCHANGED <<payload, served, coords, agents, toolVars, leafVars>>

\* The except clause of agent_invocation.
EntryExcept ==
    /\ epc = "except"
    /\ eret' = ErrorString(eexc.msg)
    /\ epc' = "done"
    /\ UNCHANGED <<payload, eexc, served, coordVars, toolVars, leafVars>>

\* The response has gone out; the process waits for the next request.
EntryDone ==
    /\ epc = "done"
    /\ epc' = "idle"
    /\ served' = served + 1
    /\ UNCHANGED <<payload, eexc, eret, coordVars, toolVars, leafVars>>

\* ------------------------------------------------- notification handler

\* The subjects and bodies send_sns_email is called with: empty, the subject
\* the handler's policy asks for, and a body.
MailTexts == {<<>>, <<"Sprint Tasks">>, <<"a", " ", "a">>}

AWS_REGION == "us-west-2"
SNS_TOPIC_ARN == "arn:aws:sns:us-west-2:905418322763:test"

\* What boto3.client may raise (a named profile that does not exist, an
\* unreadable configuration) and what publish may raise (channel
\* unreachable, malformed payload, permission denied).
ClientErrors == {"ProfileNotFound"}
PublishErrors == {"EndpointConnectionError", "InvalidParameter", "AuthorizationError"}

\* The identifiers SNS answers a publish with.
MessageIds == {"id-1", "id-2"}
PublishResponses == {[MessageId |-> id, ResponseMetadata |-> "200"] : id \in MessageIds}

NotPublished == [kind |-> "none"]

IdleMail ==
    [pc |-> "idle", subject |-> <<>>, message |-> <<>>, sns_client |-> "unset",
     publish |-> NotPublished, result |-> NoResult, calls |-> 0]

\* send_sns_email(subject, message) is called, with texts of a given set.
MailCallWith(texts) ==
    /\ mail.pc = "idle"
    /\ mail.calls < MaxMails
    /\ \E subject \in texts, message \in texts :
           mail' = [IdleMail EXCEPT !.pc = "client", !.subject = subject,
                                    !.message = message, !.calls = mail.calls]
    /\ UNCHANGED <<published, ticket, meeting, toolVars, coordVars, entryVars, deployVars>>

MailCall == MailCallWith(MailTexts)

\* sns_client = boto3.client('sns', region_name=AWS_REGION), before the try:
\* what it raises leaves the function.
MailClient ==
    /\ mail.pc = "client"
    /\ \/ mail' = [mail EXCEPT !.pc = "publish",
                                !.sns_client = <<"sns", AWS_REGION>>]
       \/ \E e \in ClientErrors :
              mail' = [mail EXCEPT !.pc = "done",
                                   !.result = [kind |-> "raise", value |-> <<e>>]]
    /\ UNCHANGED <<published, ticket, meeting, toolVars, coordVars, entryVars, deployVars>>

PublishRequestSwapped(topic, subject, message) ==
    [TopicArn |-> topic, Message |-> subject, Subject |-> message]

\* publish(TopicArn=SNS_TOPIC_ARN, Message=message, Subject=subject)
PublishRequest(topic, subject, message) ==
    [TopicArn |-> topic, Message |-> message, Subject |-> subject]

\* f"{response.get('MessageId')}"
FormatMessageId(response) ==
    IF "MessageId" \in DOMAIN response THEN response["MessageId"] ELSE "None"

SuccessResult(response) ==
    [kind |-> "return",
     value |-> [status |-> "success",
                message |-> <<"Email successfully published to SNS topic 'test'. Message ID: ",
                              FormatMessageId(response)>>]]

ErrorResultAsSuccess(e) ==
    [kind |-> "return",
     value |-> [status |-> "success",
                message |-> <<"Failed to publish email to SNS: ", e>>]]

\* except Exception as e: the error dict, with str(e) in its message
ErrorResult(e) ==
    [kind |-> "return",
     value |-> [status |-> "error",
                message |-> <<"Failed to publish email to SNS: ", e>>]]

\* try: response = sns_client.publish(...); return {...}
MailPublish ==
    /\ mail.pc = "publish"
    /\ published' = Append(published,
                           PublishRequest(SNS_TOPIC_ARN, mail.subject, mail.message))
    /\ \/ \E response \in PublishResponses :
              mail' = [mail EXCEPT !.pc = "done",
                                   !.publish = [kind |-> "return", response |-> response],
                                   !.result = SuccessResult(response)]
       \/ \E e \in PublishErrors :
              mail' = [mail EXCEPT !.pc = "except",
                                   !.publish = [kind |-> "raise", e |-> e]]
    /\ UNCHANGED <<ticket, meeting, toolVars, coordVars, entryVars, deployVars>>

MailExcept ==
    /\ mail.pc = "except"
    /\ mail' = [mail EXCEPT !.pc = "done", !.result = ErrorResult(mail.publish.e)]
    /\ UNCHANGED <<published, ticket, meeting, toolVars, coordVars, entryVars, deployVars>>

\* The session has the tool's outcome and may call the tool again.
MailDone ==
    /\ mail.pc = "done"
    /\ mail' = [IdleMail EXCEPT !.calls = mail.calls + 1]
    /\ UNCHANGED <<published, ticket, meeting, toolVars, coordVars, entryVars, deployVars>>

\* ------------------------------------------------------ ticketing handler

\* str(n) for a natural number: its decimal digits.
DigitChars == <<"0", "1", "2", "3", "4", "5", "6", "7", "8", "9">>

RECURSIVE Digits(_)
Digits(n) ==
    IF n < 10 THEN <<DigitChars[n + 1]>>
    ELSE Digits(n \div 10) \o <<DigitChars[(n % 10) + 1]>>

\* The integers the random generator is observed at: the ends of the two
\* ranges the code asks for, one value inside each, and their neighbours.
RandSample == {99, 100, 550, 999, 1000, 29999, 30000, 65000, 99999, 100000}

randintUnbounded(a, b) == RandSample

\* random.randint(a, b): any integer from a to b, both included
randint(a, b) == {n \in RandSample : a <= n /\ n <= b}

\* random.choice(seq): any element of seq
choice(seq) == {seq[i] : i \in 1..Len(seq)}

\* The outcomes of the six draws of one call, in the order of the draws.
RandomOutcomes ==
    [issue_id : randint(30000, 99999),
     project_key : choice(<<"DEV", "OPS", "TEST", "PROD", "SEC">>),
     issue_number : randint(100, 999),
     status : choice(<<"To Do", "In Progress", "Done">>),
     priority : choice(<<"Low", "Medium", "High">>),
     displayName : choice(<<"System Agent", "Automation Bot">>)]

TicketTexts == {<<>>, <<"a">>, <<"Fix login bug">>}
TenantIds == {"default", "acme"}

\* The calls: tenant_id passed or left out.
TicketArgs ==
    [summary : TicketTexts, description : TicketTexts]
    \cup [summary : TicketTexts, description : TicketTexts, tenant_id : TenantIds]

\* tenant_id: str = "default"
TenantOf(args) ==
    IF "tenant_id" \in DOMAIN args THEN args.tenant_id ELSE "default"

base_url == <<"http://localhost:8080/rest/api/2/issue">>

FieldsSwapped(summary, description, rnd) ==
    [summary |-> description,
     description |-> summary,
     status |-> [name |-> rnd.status],
     priority |-> [name |-> rnd.priority],
     creator |-> [displayName |-> rnd.displayName, active |-> TRUE]]

\* The "fields" of the mock response.
Fields(summary, description, rnd) ==
    [summary |-> summary,
     description |-> description,
     status |-> [name |-> rnd.status],
     priority |-> [name |-> rnd.priority],
     creator |-> [displayName |-> rnd.displayName, active |-> TRUE]]

\* create_jira_ticket(summary, description, tenant_id="default") with the
\* draws rnd: what it prints and the response it returns.
create_jira_ticket(args, rnd) ==
    LET issue_id == Digits(rnd.issue_id)
        ticket_key == <<rnd.project_key, "-">> \o Digits(rnd.issue_number)
        self_url == base_url \o <<"/">> \o issue_id
    IN [kind |-> "return",
        printed |-> << <<"[Tenant ", TenantOf(args), "] Creating Jira ticket...">>,
                       <<"Summary: ">> \o args.summary,
                       <<"Description: ">> \o args.description \o <<NL>> >>,
        value |-> [id |-> issue_id, key |-> ticket_key, self |-> self_url,
                   fields |-> Fields(args.summary, args.description, rnd)]]

IdleTicket == [pc |-> "idle"]

TicketCallRemembering(calls, draws) ==
    /\ ticket.pc = "idle"
    /\ \E args \in calls, rnd \in draws :
           ticket' = [pc |-> "done", args |-> args, rnd |-> rnd,
                      result |-> create_jira_ticket(
                                     IF published = <<>> THEN args
                                     ELSE [args EXCEPT !.summary = published[1].Subject],
                                     rnd)]
    /\ UNCHANGED <<mail, published, meeting, toolVars, coordVars, entryVars, deployVars>>

\* The tool is called, with arguments and draws of given sets, and runs to
\* its return.
TicketCallWith(calls, draws) ==
    /\ ticket.pc = "idle"
    /\ \E args \in calls, rnd \in draws :
           ticket' = [pc |-> "done", args |-> args, rnd |-> rnd,
                      result |-> create_jira_ticket(args, rnd)]
    /\ UNCHANGED <<mail, published, meeting, toolVars, coordVars, entryVars, deployVars>>

TicketCall == TicketCallWith(TicketArgs, RandomOutcomes)

\* The session has the record and may call the tool again.
TicketDone ==
    /\ ticket.pc = "done"
    /\ ticket' = IdleTicket
    /\ UNCHANGED <<mail, published, meeting, toolVars, coordVars, entryVars, deployVars>>

\* ----------------------------------------------------- scheduling handler

\* The date and time strings create_meeting_ics is called with, character by
\* character: dates in and around month, leap-day and year ends, the last
\* day datetime can hold, a year before 1000, one-digit fields, a day that
\* does not exist, and a date in words.
Dates ==
    {<<"2", "0", "2", "5", "-", "1", "2", "-", "1", "9">>,
     <<"2", "0", "2", "5", "-", "1", "2", "-", "3", "1">>,
     <<"2", "0", "2", "4", "-", "0", "2", "-", "2", "8">>,
     <<"2", "0", "2", "5", "-", "0", "2", "-", "2", "8">>,
     <<"9", "9", "9", "9", "-", "1", "2", "-", "3", "1">>,
     <<"0", "9", "9", "9", "-", "1", "2", "-", "3", "1">>,
     <<"2", "0", "2", "5", "-", "1", "-", "5">>,
     <<"2", "0", "2", "5", "-", "0", "2", "-", "2", "9">>,
     <<"D", "e", "c", " ", "1", "9">>}
Times ==
    {<<"1", "0", ":", "0", "0">>,
     <<"2", "3", ":", "3", "0">>,
     <<"9", ":", "5">>,
     <<"2", "4", ":", "0", "0">>}

\* duration_minutes: none, one minute, an hour, a day.
Durations == {0, 1, 60, 1440}

Names == {"", "Sarah", "David"}

RECURSIVE ListsUpTo(_)
ListsUpTo(n) ==
    IF n = 0 THEN {<<>>}
    ELSE LET shorter == ListsUpTo(n - 1)
         IN shorter \cup {Append(l, p) : l \in {x \in shorter : Len(x) = n - 1}, p \in Names}

Participants == ListsUpTo(MaxParticipants)

Titles == {<<>>, <<"Sprint Review">>}

\* The calls: every date, time and duration for two participants lists, and
\* every title and participants list for two dates; location and description
\* passed or left to their defaults.
TimingArgs ==
    [title : {<<"Sprint Review">>}, date : Dates, time : Times,
     duration_minutes : Durations, participants : {<<>>, <<"Sarah", "David">>}]
ListingArgs ==
    [title : Titles,
     date : {<<"2", "0", "2", "5", "-", "1", "2", "-", "1", "9">>,
             <<"0", "9", "9", "9", "-", "1", "2", "-", "3", "1">>},
     time : {<<"1", "0", ":", "0", "0">>}, duration_minutes : {60},
     participants : Participants]
WithPlaces(args) ==
    [k \in DOMAIN args \cup {"location", "description"} |->
        IF k \in DOMAIN args THEN args[k] ELSE <<"Room 1">>]
MeetingArgs ==
    TimingArgs \cup ListingArgs \cup {WithPlaces(args) : args \in ListingArgs}

LocationOfUnset(args) == IF "location" \in DOMAIN args THEN args.location ELSE <<"TBD">>

\* location: str = "", description: str = ""
LocationOf(args) == IF "location" \in DOMAIN args THEN args.location ELSE <<>>
DescriptionOf(args) == IF "description" \in DOMAIN args THEN args.description ELSE <<>>

\* datetime holds years 1 to 9999.
MINYEAR == 1
MAXYEAR == 9999

IsDigitChar(c) == \E i \in 1..10 : DigitChars[i] = c
DigitValue(c) == (CHOOSE i \in 1..10 : DigitChars[i] = c) - 1
AllDigits(s) == \A i \in 1..Len(s) : IsDigitChar(s[i])

\* int(s) for a string of decimal digits
RECURSIVE ToInt(_)
ToInt(s) ==
    IF s = <<>> THEN 0
    ELSE 10 * ToInt(SubSeq(s, 1, Len(s) - 1)) + DigitValue(s[Len(s)])

IsLeap(y) == (y % 4 = 0) /\ ((y % 100 # 0) \/ (y % 400 = 0))

DaysInMonthNoLeap(y, m) ==
    IF m = 2 THEN 28
    ELSE IF m \in {4, 6, 9, 11} THEN 30 ELSE 31

DaysInMonth(y, m) ==
    IF m = 2 THEN (IF IsLeap(y) THEN 29 ELSE 28)
    ELSE IF m \in {4, 6, 9, 11} THEN 30 ELSE 31

\* The ways the text splits into the fields of "%Y-%m-%d %H:%M": four digits,
\* "-", a month of one or two digits, "-", a day of one or two digits (or a
\* space and one digit), whitespace, an hour and ":" and a minute of one or
\* two digits, with nothing left over.
FieldSplits(text) ==
    {w \in [m : 1..2, sp : 0..1, d : 1..2, ws : 1..2, H : 1..2, M : 1..2] :
        /\ 4 + 1 + w.m + 1 + w.sp + w.d + w.ws + w.H + 1 + w.M = Len(text)
        /\ LET pm == 6
               pd == pm + w.m + 1 + w.sp
               pw == pd + w.d
               pH == pw + w.ws
               pM == pH + w.H + 1
               month == SubSeq(text, pm, pm + w.m - 1)
               day == SubSeq(text, pd, pd + w.d - 1)
               hour == SubSeq(text, pH, pH + w.H - 1)
               minute == SubSeq(text, pM, pM + w.M - 1)
           IN /\ AllDigits(SubSeq(text, 1, 4))
              /\ text[5] = "-"
              /\ AllDigits(month) /\ ToInt(month) \in 1..12
              /\ text[pm + w.m] = "-"
              /\ w.sp = 1 => (text[pd - 1] = " " /\ w.d = 1)
              /\ AllDigits(day) /\ ToInt(day) \in 1..31
              /\ \A i \in pw..(pH - 1) : text[i] \in Whitespace
              /\ AllDigits(hour) /\ ToInt(hour) \in 0..23
              /\ text[pH + w.H] = ":"
              /\ AllDigits(minute) /\ ToInt(minute) \in 0..59}

ValueError == "ValueError"
OverflowError == "OverflowError"

ParsedFields(text, w) ==
    LET pm == 6
        pd == pm + w.m + 1 + w.sp
        pH == pd + w.d + w.ws
        pM == pH + w.H + 1
    IN [year |-> ToInt(SubSeq(text, 1, 4)),
        month |-> ToInt(SubSeq(text, pm, pm + w.m - 1)),
        day |-> ToInt(SubSeq(text, pd, pd + w.d - 1)),
        hour |-> ToInt(SubSeq(text, pH, pH + w.H - 1)),
        minute |-> ToInt(SubSeq(text, pM, pM + w.M - 1)),
        second |-> 0]

strptimeOrToday(text) ==
    [ok |-> TRUE,
     dt |-> [year |-> 2025, month |-> 11, day |-> 5, hour |-> 0, minute |-> 0,
             second |-> 0]]

\* datetime.strptime(text, "%Y-%m-%d %H:%M"): the datetime, or ValueError when
\* the text does not match or names a date that does not exist.
strptime(text) ==
    LET splits == FieldSplits(text)
    IN IF splits = {} THEN [ok |-> FALSE, error |-> ValueError]
       ELSE LET dt == ParsedFields(text, CHOOSE w \in splits : TRUE)
            IN IF dt.year < MINYEAR \/ dt.day > DaysInMonth(dt.year, dt.month)
               THEN [ok |-> FALSE, error |-> ValueError]
               ELSE [ok |-> TRUE, dt |-> dt]

\* The day after a date.
NextDay(dt) ==
    IF dt.day < DaysInMonth(dt.year, dt.month) THEN [dt EXCEPT !.day = @ + 1]
    ELSE IF dt.month < 12 THEN [dt EXCEPT !.day = 1, !.month = @ + 1]
    ELSE [dt EXCEPT !.day = 1, !.month = 1, !.year = @ + 1]

RECURSIVE AddDays(_, _)
AddDays(dt, k) == IF k = 0 \/ dt.year > MAXYEAR THEN dt ELSE AddDays(NextDay(dt), k - 1)

\* start_dt + timedelta(minutes=n), n >= 0: the minutes carry into hours and
\* days, the days into months and years; OverflowError past year 9999.
AddMinutes(dt, n) ==
    LET total == dt.hour * 60 + dt.minute + n
        end == [AddDays(dt, total \div 1440) EXCEPT !.hour = (total % 1440) \div 60,
                                                    !.minute = total % 60]
    IN IF end.year > MAXYEAR THEN [ok |-> FALSE, error |-> OverflowError]
       ELSE [ok |-> TRUE, dt |-> end]

strftimeMinutes(dt, libc) ==
    <<"2", "0", "2", "5", "1", "1", "0", "5", "T">>
    \o <<DigitChars[(dt.hour \div 10) + 1], DigitChars[(dt.hour % 10) + 1],
         DigitChars[(dt.minute \div 10) + 1], DigitChars[(dt.minute % 10) + 1],
         "0", "0">>

\* A number zero-padded to a width.
RECURSIVE Pad(_, _)
Pad(s, width) == IF Len(s) >= width THEN s ELSE Pad(<<"0">> \o s, width)

\* "%Y" pads the year to four digits or prints it as it is, depending on the
\* C library.
YearFormats == {"padded", "unpadded"}

\* dt.strftime("%Y%m%dT%H%M%S")
strftime(dt, libc) ==
    (IF libc = "padded" THEN Pad(Digits(dt.year), 4) ELSE Digits(dt.year))
    \o Pad(Digits(dt.month), 2) \o Pad(Digits(dt.day), 2) \o <<"T">>
    \o Pad(Digits(dt.hour), 2) \o Pad(Digits(dt.minute), 2) \o Pad(Digits(dt.second), 2)

\* datetime.utcnow(): three instants, two of them within one second.
Clock ==
    {[year |-> 2025, month |-> 11, day |-> 5, hour |-> 8, minute |-> 0,
      second |-> t[1], microsecond |-> t[2]] :
        t \in {<<0, 0>>, <<0, 500000>>, <<1, 0>>}}

\* The eight spaces every line of the template after its first begins with.
Indent == "        "

\* {"".join([f"ATTENDEE;CN={p}" for p in participants])} on its template line
Attendees(participants) ==
    << <<Indent>> \o join(<<>>, [i \in 1..Len(participants) |->
                                    <<"ATTENDEE;CN=", participants[i]>>]) >>

IcsContentStampedSummary(title, description, location, participants, dtstart, dtend, dtstamp) ==
    << <<"BEGIN:VCALENDAR">>,
       <<Indent, "VERSION:2.0">>,
       <<Indent, "PRODID:-//Strands Tool//Meeting Scheduler//EN">>,
       <<Indent, "BEGIN:VEVENT">>,
       <<Indent, "UID:">> \o dtstamp \o <<"-strands@tool">>,
       <<Indent, "DTSTAMP:">> \o dtstamp,
       <<Indent, "DTSTART:">> \o dtstart,
       <<Indent, "DTEND:">> \o dtend,
       <<Indent, "SUMMARY:">> \o title \o dtstamp,
       <<Indent, "DESCRIPTION:">> \o description,
       <<Indent, "LOCATION:">> \o location >>
    \o Attendees(participants)
    \o << <<Indent, "END:VEVENT">>,
          <<Indent, "END:VCALENDAR">>,
          <<Indent>> >>

\* The template of ics_content, line by line.
IcsContent(title, description, location, participants, dtstart, dtend, dtstamp) ==
    << <<"BEGIN:VCALENDAR">>,
       <<Indent, "VERSION:2.0">>,
       <<Indent, "PRODID:-//Strands Tool//Meeting Scheduler//EN">>,
       <<Indent, "BEGIN:VEVENT">>,
       <<Indent, "UID:">> \o dtstamp \o <<"-strands@tool">>,
       <<Indent, "DTSTAMP:">> \o dtstamp,
       <<Indent, "DTSTART:">> \o dtstart,
       <<Indent, "DTEND:">> \o dtend,
       <<Indent, "SUMMARY:">> \o title,
       <<Indent, "DESCRIPTION:">> \o description,
       <<Indent, "LOCATION:">> \o location >>
    \o Attendees(participants)
    \o << <<Indent, "END:VEVENT">>,
          <<Indent, "END:VCALENDAR">>,
          <<Indent>> >>

\* create_meeting_ics(...) called at instant now on a build with C library
\* libc: the document it returns, or the exception that leaves it.
create_meeting_ics(args, now, libc) ==
    LET start_dt == strptime(args.date \o <<" ">> \o args.time)
    IN IF ~start_dt.ok THEN [kind |-> "raise", error |-> start_dt.error]
       ELSE LET end_dt == AddMinutes(start_dt.dt, args.duration_minutes)
            IN IF ~end_dt.ok THEN [kind |-> "raise", error |-> end_dt.error]
               ELSE [kind |-> "return",
                     value |-> IcsContent(args.title, DescriptionOf(args),
                                          LocationOf(args), args.participants,
                                          strftime(start_dt.dt, libc),
                                          strftime(end_dt.dt, libc),
                                          strftime(now, libc))]

IdleMeeting == [pc |-> "idle"]

\* The tool is called, with arguments of a given set, and runs to its return
\* or its exception.
MeetingCallWith(calls) ==
    /\ meeting.pc = "idle"
    /\ \E args \in calls, now \in Clock, libc \in YearFormats :
           meeting' = [pc |-> "done", args |-> args, now |-> now, libc |-> libc,
                       result |-> create_meeting_ics(args, now, libc)]
    /\ UNCHANGED <<mail, published, ticket, toolVars, coordVars, entryVars, deployVars>>

MeetingCall == MeetingCallWith(MeetingArgs)

\* The arguments of a following call: the same again, or those of another
\* meeting.
FollowingArgs(args) ==
    {args} \cup {a \in TimingArgs :
                    /\ a.date = <<"2", "0", "2", "5", "-", "1", "2", "-", "1", "9">>
                    /\ a.time = <<"1", "0", ":", "0", "0">>
                    /\ a.duration_minutes = 60}

\* The tool is called a second time in the same process, at any instant;
\* the caller keeps the first outcome beside the second.
MeetingSecond ==
    /\ meeting.pc = "done"
    /\ \E args \in FollowingArgs(meeting.args), now \in Clock :
           meeting' = [pc |-> "second", args |-> args, now |-> now,
                       libc |-> meeting.libc,
                       result |-> create_meeting_ics(args, now, meeting.libc),
                       first |-> [args |-> meeting.args, now |-> meeting.now,
                                  result |-> meeting.result]]
    /\ UNCHANGED <<mail, published, ticket, toolVars, coordVars, entryVars, deployVars>>

\* The session has the outcome and may call the tool again.
MeetingDone ==
    /\ meeting.pc \in {"done", "second"}
    /\ meeting' = IdleMeeting
    /\ UNCHANGED <<mail, published, ticket, toolVars, coordVars, entryVars, deployVars>>

\* ------------------------------------- environment file (env_utils.py)

\* A line of an environment file is a sequence of atoms: a name, a value,
\* "=", "#", "===", "export", " " or "\n".  The text of a file is the
\* concatenation of its lines; only its last line may lack the "\n".
LineSpace == {" ", NL}

\* line.strip()
StripLine(line) ==
    LET kept == {i \in 1..Len(line) : line[i] \notin LineSpace}
    IN IF kept = {} THEN <<>>
       ELSE SubSeq(line, CHOOSE i \in kept : \A j \in kept : i <= j,
                         CHOOSE i \in kept : \A j \in kept : j <= i)

\* str.startswith(prefix)
StartsWith(text, prefix) ==
    Len(text) >= Len(prefix) /\ SubSeq(text, 1, Len(prefix)) = prefix

\* "# === ": what every section marker begins with.
MarkerPrefix == <<"#", " ", "===", " ">>

\* start_marker = f"# === {section_name} ==="
StartMarker(section_name) == MarkerPrefix \o <<section_name, " ", "===">>

\* f.readlines(): the text cut after every "\n".
RECURSIVE readlines(_)
readlines(text) ==
    IF text = <<>> THEN <<>>
    ELSE LET ends == {i \in 1..Len(text) : text[i] = NL}
             n == IF ends = {} THEN Len(text)
                  ELSE CHOOSE i \in ends : \A j \in ends : i <= j
         IN <<SubSeq(text, 1, n)>> \o readlines(SubSeq(text, n + 1, Len(text)))

\* f.writelines(lines): the lines one after another, nothing added.
RECURSIVE writelines(_)
writelines(lines) ==
    IF lines = <<>> THEN <<>> ELSE Head(lines) \o writelines(Tail(lines))

\* A file: absent, or present with its text.
NoFile == [exists |-> FALSE, text |-> <<>>]
FileOf(text) == [exists |-> TRUE, text |-> text]

\* existing_lines = [] unless the file exists
ExistingLines(file) == IF file.exists THEN readlines(file.text) ELSE <<>>

\* start_idx = None
NotFound == -1

\* The loop that finds the section's boundaries, from 0-based index i on,
\* with the start_idx found so far.
RECURSIVE FindSection(_, _, _, _)
FindSection(existing_lines, start_marker, i, start_idx) ==
    IF i = Len(existing_lines)
    THEN [start_idx |-> start_idx, end_idx |-> Len(existing_lines)]
    ELSE LET line_stripped == StripLine(existing_lines[i + 1])
         IN IF line_stripped = start_marker
            THEN FindSection(existing_lines, start_marker, i + 1, i)
            ELSE IF /\ start_idx # NotFound
                    /\ StartsWith(line_stripped, MarkerPrefix)
                    /\ line_stripped # start_marker
                 THEN [start_idx |-> start_idx, end_idx |-> i]
                 ELSE FindSection(existing_lines, start_marker, i + 1, start_idx)

KeepBeforeThroughMarker(existing_lines, start_idx) ==
    IF start_idx # NotFound THEN SubSeq(existing_lines, 1, start_idx + 1)
    ELSE IF /\ existing_lines # <<>>
            /\ StripLine(existing_lines[Len(existing_lines)]) # <<>>
         THEN Append(existing_lines, <<NL>>)
         ELSE existing_lines

\* "Keep everything before our section", with the separator when the section
\* is new and the file does not end in a blank line.
KeepBefore(existing_lines, start_idx) ==
    IF start_idx # NotFound THEN SubSeq(existing_lines, 1, start_idx)
    ELSE IF /\ existing_lines # <<>>
            /\ StripLine(existing_lines[Len(existing_lines)]) # <<>>
         THEN Append(existing_lines, <<NL>>)
         ELSE existing_lines

\* `if not line.endswith('\n'): line += '\n'`
WithNewline(line) ==
    IF line # <<>> /\ line[Len(line)] = NL THEN line ELSE Append(line, NL)

\* "Add our section": the marker, the content lines, and a blank line after
\* a content that is not empty.
OurSection(start_marker, section_content) ==
    <<Append(start_marker, NL)>>
        \o [i \in 1..Len(section_content) |-> WithNewline(section_content[i])]
        \o (IF section_content # <<>> THEN <<<<NL>>>> ELSE <<>>)

KeepAfterNextLine(existing_lines, start_idx, end_idx) ==
    IF start_idx # NotFound /\ end_idx + 1 < Len(existing_lines)
    THEN SubSeq(existing_lines, end_idx + 2, Len(existing_lines))
    ELSE <<>>

\* "Keep everything after our section"
KeepAfter(existing_lines, start_idx, end_idx) ==
    IF start_idx # NotFound /\ end_idx < Len(existing_lines)
    THEN SubSeq(existing_lines, end_idx + 1, Len(existing_lines))
    ELSE <<>>

\* new_lines, as update_env_section builds it from the file it found.
NewLines(file, section_name, section_content) ==
    LET existing_lines == ExistingLines(file)
        start_marker == StartMarker(section_name)
        found == FindSection(existing_lines, start_marker, 0, NotFound)
    IN KeepBefore(existing_lines, found.start_idx)
           \o OurSection(start_marker, section_content)
           \o KeepAfter(existing_lines, found.start_idx, found.end_idx)

\* The position of the first "=" of a line, 0 when it has none.
FirstEquals(text) ==
    LET at == {i \in 1..Len(text) : text[i] = "="}
    IN IF at = {} THEN 0 ELSE CHOOSE i \in at : \A j \in at : i <= j

\* variables[key] = value
SetVariable(variables, key, value) ==
    {v \in variables : v.key # key} \cup {[key |-> key, value |-> value]}

ParseVariableKeepsExport(variables, line_stripped) ==
    IF FirstEquals(line_stripped) = 0 THEN variables
    ELSE SetVariable(variables,
                     SubSeq(line_stripped, 1, FirstEquals(line_stripped) - 1),
                     SubSeq(line_stripped, FirstEquals(line_stripped) + 1,
                            Len(line_stripped)))

\* "Parse environment variable": `export ` is dropped, the line is split at
\* its first "=".
ParseVariable(variables, line_stripped) ==
    IF FirstEquals(line_stripped) = 0 THEN variables
    ELSE LET rest == IF StartsWith(line_stripped, <<"export", " ">>)
                     THEN SubSeq(line_stripped, 3, Len(line_stripped))
                     ELSE line_stripped
         IN SetVariable(variables,
                        SubSeq(rest, 1, FirstEquals(rest) - 1),
                        SubSeq(rest, FirstEquals(rest) + 1, Len(rest)))

\* The loop of read_env_section over the lines from the i-th on.
RECURSIVE ReadLines(_, _, _, _, _)
ReadLines(lines, start_marker, i, in_section, variables) ==
    IF i > Len(lines) THEN variables
    ELSE LET line_stripped == StripLine(lines[i])
         IN IF line_stripped = start_marker
            THEN ReadLines(lines, start_marker, i + 1, TRUE, variables)
            ELSE IF in_section /\ StartsWith(line_stripped, MarkerPrefix)
                 THEN variables
                 ELSE IF /\ in_section
                         /\ line_stripped # <<>>
                         /\ Head(line_stripped) # "#"
                      THEN ReadLines(lines, start_marker, i + 1, in_section,
                                     ParseVariable(variables, line_stripped))
                      ELSE ReadLines(lines, start_marker, i + 1, in_section,
                                     variables)

\* read_env_section(file_path, section_name): the variables of one section,
\* as a set of key/value pairs; none when the file does not exist.
read_env_section(file, section_name) ==
    IF ~file.exists THEN {}
    ELSE ReadLines(readlines(file.text), StartMarker(section_name), 1, FALSE, {})

\* The sections the deployment scripts own.
SectionNames == {"PHASE1_RUNTIME", "AUTHENTICATION"}

\* Lines an environment file or a section content is made of.
Var(key, value) == <<key, "=", value>>
Exported(key, value) == <<"export", " ", key, "=", value>>
Comment == <<"#", " ", "note">>
Notes == MarkerPrefix \o <<"notes">>
Terminated(lines) == [i \in 1..Len(lines) |-> Append(lines[i], NL)]

\* Environment files update_env_section may find: none, an empty one, one
\* without sections, the section first, in the middle, last and absent, a
\* marker that occurs twice, an indented marker, a last line without "\n".
EnvFiles ==
    {NoFile,
     FileOf(<<>>),
     FileOf(writelines(Terminated(<<Var("A", "1")>>))),
     FileOf(Var("A", "1")),
     FileOf(writelines(Terminated(
         <<StartMarker("PHASE1_RUNTIME"), Var("A", "1"), <<>>,
           StartMarker("AUTHENTICATION"), Var("B", "2"), <<>>>>))),
     FileOf(writelines(Terminated(
         <<StartMarker("AUTHENTICATION"), Var("B", "2"), <<>>,
           StartMarker("PHASE1_RUNTIME"), Exported("A", "3"), <<>>,
           Notes, Var("B", "1")>>))),
     FileOf(writelines(Terminated(
         <<StartMarker("AUTHENTICATION"), Var("B", "2"), <<>>,
           StartMarker("PHASE1_RUNTIME")>>)) \o Var("A", "1")),
     FileOf(writelines(Terminated(
         <<StartMarker("AUTHENTICATION"), Var("B", "2")>>))),
     FileOf(writelines(Terminated(
         <<StartMarker("PHASE1_RUNTIME"), Var("A", "1"),
           StartMarker("PHASE1_RUNTIME"), Var("B", "2"),
           StartMarker("AUTHENTICATION"), Var("A", "2")>>))),
     FileOf(writelines(Terminated(
         <<StartMarker("PHASE1_RUNTIME"), Var("A", "1"),
           StartMarker("AUTHENTICATION"), Var("B", "2"),
           StartMarker("PHASE1_RUNTIME"), Var("A", "2")>>))),
     FileOf(writelines(Terminated(
         <<StartMarker("AUTHENTICATION"), Var("B", "2")>>)) \o <<" ">>),
     FileOf(writelines(Terminated(
         <<<<" ">> \o StartMarker("PHASE1_RUNTIME"), Var("A", "1"), Comment>>)))}

\* Section contents a caller may pass: none, a line without "\n", a key
\* given twice, an exported variable among a comment, a line without "=" and
\* an empty line, and comment lines that begin as a section marker does.
SectionContents ==
    {<<>>,
     <<Var("A", "1")>>,
     Terminated(<<Var("A", "1"), Var("A", "2")>>),
     <<Exported("B", "2"), Comment, <<"junk">>, <<>>>>,
     <<Var("A", "1"), Notes, Var("B", "2")>>,
     <<StartMarker("AUTHENTICATION"), Var("B", "1")>>,
     <<StartMarker("PHASE1_RUNTIME"), Var("A", "1")>>}

IdleUpdate == [pc |-> "idle"]
NotRead == [PHASE1_RUNTIME |-> {}, AUTHENTICATION |-> {}, done |-> FALSE]
NoFirst == [pc |-> "none"]
OSError == "OSError"

\* Lines 27-78 of update_env_section: the backup is taken, the file is read
\* and new_lines is built.
Prepared(section_name, section_content, first) ==
    /\ backups' = IF envFile.exists THEN Append(backups, envFile.text) ELSE backups
    /\ update' = [pc |-> "write",
                  section_name |-> section_name,
                  section_content |-> section_content,
                  before |-> envFile,
                  new_lines |-> NewLines(envFile, section_name, section_content),
                  result |-> [kind |-> "none"],
                  read |-> NotRead,
                  first |-> first]
    /\ UNCHANGED <<envFile, tempFile>>

\* update_env_section(file_path, section_name, section_content) is called.
UpdateCall ==
    /\ update.pc = "idle"
    /\ \E section_name \in SectionNames, section_content \in SectionContents :
           Prepared(section_name, section_content, NoFirst)
    /\ UNCHANGED <<deploy, handlerVars, toolVars, coordVars, entryVars>>

\* ... and called once more, on the file the first call left.
UpdateAgain ==
    /\ update.pc = "read"
    /\ update.first = NoFirst
    /\ \E section_name \in SectionNames, section_content \in SectionContents :
           Prepared(section_name, section_content,
                    [pc |-> "done",
                     section_name |-> update.section_name,
                     section_content |-> update.section_content,
                     before |-> update.before,
                     result |-> update.result,
                     after |-> envFile])
    /\ UNCHANGED <<deploy, handlerVars, toolVars, coordVars, entryVars>>

\* `with open(temp_file, 'w') as f: f.writelines(new_lines)`: the temporary
\* file gets the whole text, or the open fails, or the write fails with
\* nothing or only a part written.
UpdateWrite ==
    /\ update.pc = "write"
    /\ \/ /\ tempFile' = FileOf(writelines(update.new_lines))
          /\ update' = [update EXCEPT !.pc = "replace"]
       \/ /\ tempFile' = tempFile
          /\ update' = [update EXCEPT !.pc = "except"]
       \/ /\ tempFile' \in {FileOf(<<>>), FileOf(update.new_lines[1])}
          /\ update' = [update EXCEPT !.pc = "except"]
    /\ UNCHANGED <<envFile, backups, deploy, handlerVars, toolVars, coordVars, entryVars>>

\* temp_file.replace(file_path): the rename happens, or fails and changes
\* nothing.
UpdateReplace ==
    /\ update.pc = "replace"
    /\ \/ /\ envFile' = tempFile
          /\ tempFile' = NoFile
          /\ update' = [update EXCEPT !.pc = "done", !.result = [kind |-> "return"]]
       \/ /\ update' = [update EXCEPT !.pc = "except"]
          /\ UNCHANGED <<envFile, tempFile>>
    /\ UNCHANGED <<backups, deploy, handlerVars, toolVars, coordVars, entryVars>>

UpdateExceptLeavesTemp ==
    /\ update.pc = "except"
    /\ update' = [update EXCEPT !.pc = "done",
                                !.result = [kind |-> "raise", exc |-> OSError]]
    /\ UNCHANGED <<tempFile, envFile, backups, deploy, handlerVars, toolVars,
                   coordVars, entryVars>>

\* `except Exception as e: if temp_file.exists(): temp_file.unlink(); raise e`
UpdateExcept ==
    /\ update.pc = "except"
    /\ tempFile' = NoFile
    /\ update' = [update EXCEPT !.pc = "done",
                                !.result = [kind |-> "raise", exc |-> OSError]]
    /\ UNCHANGED <<envFile, backups, deploy, handlerVars, toolVars, coordVars, entryVars>>

\* The caller reads both sections back with read_env_section.
ReadCall ==
    /\ update.pc = "done"
    /\ update' = [update EXCEPT
           !.pc = "read",
           !.read = [PHASE1_RUNTIME |-> read_env_section(envFile, "PHASE1_RUNTIME"),
                     AUTHENTICATION |-> read_env_section(envFile, "AUTHENTICATION"),
                     done |-> TRUE]]
    /\ UNCHANGED <<envFile, tempFile, backups, deploy, handlerVars, toolVars,
                   coordVars, entryVars>>

\* ------------------------------- deployment script (deploy_runtime.py)

\* What an ARN of a runtime begins with.
ArnPrefix == "arn:aws:bedrock-agentcore:"

\* runtime_arn = None
NoArn == <<>>

\* The characters the ARN pattern stops at: the box-drawing bar of the
\* status table (written "|" here) and whitespace.
ArnStops == {"|", " ", NL}

\* status_result.stdout.split('\n')
RECURSIVE split(_)
split(text) ==
    LET ends == {i \in 1..Len(text) : text[i] = NL}
    IN IF ends = {} THEN <<text>>
       ELSE LET n == CHOOSE i \in ends : \A j \in ends : i <= j
            IN <<SubSeq(text, 1, n - 1)>> \o split(SubSeq(text, n + 1, Len(text)))

\* re.search of the ARN pattern in a line: the leftmost
\* prefix that something other than a bar or whitespace follows, with all
\* that follows it up to the next bar or whitespace; NoArn without a match.
ArnSearch(line) ==
    LET starts == {i \in 1..Len(line) :
                      /\ line[i] = ArnPrefix
                      /\ i < Len(line)
                      /\ line[i + 1] \notin ArnStops}
    IN IF starts = {} THEN NoArn
       ELSE LET i == CHOOSE k \in starts : \A j \in starts : k <= j
                runs == {j \in (i + 1)..Len(line) :
                            \A k \in (i + 1)..j : line[k] \notin ArnStops}
            IN SubSeq(line, i, CHOOSE j \in runs : \A k \in runs : k <= j)

\* The loop over the lines of the status output: the first line that holds
\* the prefix and matches the pattern gives the ARN.
RECURSIVE ExtractArn(_)
ExtractArn(lines) ==
    IF lines = <<>> THEN NoArn
    ELSE IF ArnSearch(Head(lines)) # NoArn THEN ArnSearch(Head(lines))
         ELSE ExtractArn(Tail(lines))

\* What `agentcore status` may print: nothing, a status without an ARN, a
\* boxed line with the ARN, the bare prefix on one line and the ARN on the
\* next, and the bare prefix alone.
StatusOutputs ==
    {<<>>,
     <<"Status:", " ", "READY", NL>>,
     <<"|", " ", "Agent", " ", "ARN:", " ", ArnPrefix, "us-west-2:1:runtime/a",
       " ", "|", NL>>,
     <<ArnPrefix, NL, ArnPrefix, "us-west-2:1:runtime/b", "|", NL>>,
     <<ArnPrefix, " ", NL>>}

ReturnCodes == {0, 1}

\* runtime_content
RuntimeContent(runtime_arn) ==
    <<<<"#", " ", "Phase 1 AgentCore Runtime">>,
      <<"export", " ", "AGENTCORE_RUNTIME_ARN_SIMPLE", "=">> \o runtime_arn,
      <<"export", " ", "AGENTCORE_AUTH_TYPE", "=", "iam">>>>

\* The script before it runs: nothing ran, no exit status yet.
IdleDeploy ==
    [pc |-> "idle", app_py |-> FALSE, ran |-> <<>>, exit |-> "none",
     stdout |-> <<>>, runtime_arn |-> NoArn]

\* sys.exit(1), or an exception nothing catches
Exit1(d) == [d EXCEPT !.pc = "exited", !.exit = "1"]

\* subprocess.run([...]) returned with this code
Ran(d, cmd, rc) == [d EXCEPT !.ran = Append(@, [cmd |-> cmd, rc |-> rc])]

\* `if not Path("app.py").exists(): ... sys.exit(1)`
DeployStart ==
    /\ deploy.pc = "idle"
    /\ \E app_py \in BOOLEAN :
           deploy' = IF app_py
                     THEN [deploy EXCEPT !.pc = "version", !.app_py = TRUE]
                     ELSE Exit1(deploy)
    /\ UNCHANGED <<envFile, tempFile, backups, update, handlerVars, toolVars,
                   coordVars, entryVars>>

\* Step 1: `agentcore --version` inside try/except; only an exception (the
\* CLI is not installed) ends the script, the return code is not looked at.
DeployVersion ==
    /\ deploy.pc = "version"
    /\ \/ deploy' = Exit1(deploy)
       \/ \E rc \in ReturnCodes :
              deploy' = [Ran(deploy, "--version", rc) EXCEPT !.pc = "configure"]
    /\ UNCHANGED <<envFile, tempFile, backups, update, handlerVars, toolVars,
                   coordVars, entryVars>>

DeployConfigureUnchecked ==
    /\ deploy.pc = "configure"
    /\ \E rc \in ReturnCodes :
           deploy' = [Ran(deploy, "configure", rc) EXCEPT !.pc = "launch"]
    /\ UNCHANGED <<envFile, tempFile, backups, update, handlerVars, toolVars,
                   coordVars, entryVars>>

\* Step 2: `agentcore configure ...`; a return code other than 0 exits.
DeployConfigure ==
    /\ deploy.pc = "configure"
    /\ \E rc \in ReturnCodes :
           deploy' = IF rc # 0 THEN Exit1(Ran(deploy, "configure", rc))
                     ELSE [Ran(deploy, "configure", rc) EXCEPT !.pc = "launch"]
    /\ UNCHANGED <<envFile, tempFile, backups, update, handlerVars, toolVars,
                   coordVars, entryVars>>

\* Step 3: `agentcore launch --auto-update-on-conflict`; a return code other
\* than 0 exits.
DeployLaunch ==
    /\ deploy.pc = "launch"
    /\ \E rc \in ReturnCodes :
           deploy' = IF rc # 0 THEN Exit1(Ran(deploy, "launch", rc))
                     ELSE [Ran(deploy, "launch", rc) EXCEPT !.pc = "status"]
    /\ UNCHANGED <<envFile, tempFile, backups, update, handlerVars, toolVars,
                   coordVars, entryVars>>

\* `agentcore status` with its output captured, and the search for the ARN
\* in it; the return code is not looked at.
DeployStatus ==
    /\ deploy.pc = "status"
    /\ \E rc \in ReturnCodes, stdout \in StatusOutputs :
           deploy' = [Ran(deploy, "status", rc) EXCEPT
                         !.stdout = stdout,
                         !.runtime_arn = ExtractArn(split(stdout)),
                         !.pc = IF ExtractArn(split(stdout)) # NoArn
                                THEN "save" ELSE "finish"]
    /\ UNCHANGED <<envFile, tempFile, backups, update, handlerVars, toolVars,
                   coordVars, entryVars>>

\* `if runtime_arn:` update_env_section(env_path, "PHASE1_RUNTIME",
\* runtime_content): the backup is taken, then the section is written, or
\* the write fails and the exception ends the script.
DeploySave ==
    /\ deploy.pc = "save"
    /\ backups' = IF envFile.exists THEN Append(backups, envFile.text) ELSE backups
    /\ \/ /\ envFile' = FileOf(writelines(
                 NewLines(envFile, "PHASE1_RUNTIME",
                          RuntimeContent(deploy.runtime_arn))))
          /\ deploy' = [deploy EXCEPT !.pc = "finish"]
       \/ /\ envFile' = envFile
          /\ deploy' = Exit1(deploy)
    /\ UNCHANGED <<tempFile, update, handlerVars, toolVars, coordVars, entryVars>>

\* The closing messages; main returns and the script ends with status 0.
DeployFinish ==
    /\ deploy.pc = "finish"
    /\ deploy' = [deploy EXCEPT !.pc = "exited", !.exit = "0"]
    /\ UNCHANGED <<envFile, tempFile, backups, update, handlerVars, toolVars,
                   coordVars, entryVars>>

\* --------------------------------------------------------- specifications

NoLeaf ==
    /\ mail = IdleMail
    /\ published = <<>>
    /\ ticket = IdleTicket
    /\ meeting = IdleMeeting

\* No deployment has run: there is no environment file yet.
NoDeployment ==
    /\ envFile = NoFile
    /\ tempFile = NoFile
    /\ backups = <<>>
    /\ update = IdleUpdate
    /\ deploy = IdleDeploy

InitCore ==
    /\ coords = <<>>
    /\ agents = <<>>
    /\ frames = [t \in Threads |-> IdleFrame]
    /\ epc = "idle"
    /\ payload = NoPayload
    /\ eexc = NoException
    /\ eret = NoResult
    /\ served = 0
    /\ NoLeaf

InitIdle == InitCore /\ NoDeployment

NoTool ==
    /\ toolCall = NoCall
    /\ handlerOut = [h \in Handlers |-> [kind |-> "return", text |-> OkText]]
    /\ toolResult = Pending

\* The entrypoint serving requests one after another.
Init == InitIdle /\ NoTool

Next ==
    \/ EntryReceive
    \/ EntryLog
    \/ EntryExtract
    \/ EntryConstruct
    \/ QueryStep("t1")
    \/ EntryResponse
    \/ EntryExcept
    \/ EntryDone

Spec == Init /\ [][Next]_vars

\* One coordinator, constructed once, whose query is called by two threads.
InitCoord ==
    /\ NoTool
    /\ coords = <<NewCoordinator(1)>>
    /\ agents = <<>>
    /\ frames = [t \in Threads |-> IdleFrame]
    /\ epc = "idle"
    /\ payload = NoPayload
    /\ eexc = NoException
    /\ eret = NoResult
    /\ served = 0
    /\ NoLeaf
    /\ NoDeployment

NextCoord == \E t \in Threads : QueryCall(t) \/ QueryStep(t) \/ QueryDone(t)

SpecCoord == InitCoord /\ [][NextCoord]_vars

\* One coordinator whose query one thread calls again and again.
NextRoute == QueryCall("t1") \/ QueryStep("t1") \/ QueryDone("t1")

SpecRoute == InitCoord /\ [][NextRoute]_vars

\* One routing tool called once, for every tool, argument and handler outcome.
InitTool ==
    /\ InitIdle
    /\ toolCall \in ToolCalls
    /\ handlerOut \in [Handlers -> HandlerOutcomes]
    /\ toolResult = Pending

NextTool == InvokeTool

SpecTool == InitTool /\ [][NextTool]_vars

\* send_sns_email called again and again, for every subject and body and
\* every outcome of the client construction and of the publish.
NextMail == MailCall \/ MailClient \/ MailPublish \/ MailExcept \/ MailDone

SpecMail == Init /\ [][NextMail]_vars

\* create_jira_ticket called again and again, for every summary, description
\* and tenant and every outcome of the random draws.
NextTicket == TicketCall \/ TicketDone

SpecTicket == Init /\ [][NextTicket]_vars

\* create_meeting_ics called again and again, for every argument list, clock
\* reading and year format.
NextMeeting == MeetingCall \/ MeetingDone

SpecMeeting == Init /\ [][NextMeeting]_vars

\* The three handlers' tools called in any order and any number of times,
\* each with a few of its arguments.
FewTexts == {<<>>, <<"Sprint Tasks">>}
FewTickets == {a \in TicketArgs : a.summary = <<"a">> /\ "tenant_id" \notin DOMAIN a}
FewDraws ==
    {r \in RandomOutcomes :
        /\ r.issue_id = 30000 /\ r.issue_number = 100 /\ r.status = "Done"
        /\ r.priority = "Low" /\ r.displayName = "System Agent"
        /\ r.project_key \in {"DEV", "SEC"}}
FewMeetings ==
    {a \in TimingArgs :
        /\ a.date = <<"2", "0", "2", "5", "-", "1", "2", "-", "1", "9">>
        /\ a.time \in {<<"1", "0", ":", "0", "0">>, <<"2", "4", ":", "0", "0">>}
        /\ a.duration_minutes = 60
        /\ a.participants # <<>>}

NextHandlers ==
    \/ MailCallWith(FewTexts) \/ MailClient \/ MailPublish \/ MailExcept \/ MailDone
    \/ TicketCallWith(FewTickets, FewDraws) \/ TicketDone
    \/ MeetingCallWith(FewMeetings) \/ MeetingDone

SpecHandlers == Init /\ [][NextHandlers]_vars

\* create_meeting_ics called twice in one process.
NextMeetingPair == MeetingCall \/ MeetingSecond \/ MeetingDone

SpecMeetingPair == Init /\ [][NextMeetingPair]_vars

\* ============================================================ properties

\* update_env_section called twice on an environment file, each call followed
\* by read_env_section, for every file, section, content and outcome of the
\* write and of the rename.
InitEnv ==
    /\ InitCore
    /\ NoTool
    /\ envFile \in EnvFiles
    /\ tempFile = NoFile
    /\ backups = <<>>
    /\ update = IdleUpdate
    /\ deploy = IdleDeploy

NextEnv ==
    UpdateCall \/ UpdateWrite \/ UpdateReplace \/ UpdateExcept \/ ReadCall \/ UpdateAgain

SpecEnv == InitEnv /\ [][NextEnv]_vars

\* The deployment script run once, for every outcome of its tools, every
\* status output and every environment file it may find.
NextDeploy ==
    \/ DeployStart
    \/ DeployVersion
    \/ DeployConfigure
    \/ DeployLaunch
    \/ DeployStatus
    \/ DeploySave
    \/ DeployFinish

SpecDeploy == InitEnv /\ [][NextDeploy]_vars

\* ------------------------------------------- the routing tools (SpecTool)

IsAnalysis == toolCall.tool = "coordinate_analysis"
ToolDone == toolResult # Pending

CallEvents == SelectSeq(toolResult.events, LAMBDA e : e.ev = "call")
ReturnEvents == SelectSeq(toolResult.events, LAMBDA e : e.ev = "return")
RaiseEvents == SelectSeq(toolResult.events, LAMBDA e : e.ev = "raise")
InvokedSet == {CallEvents[i].agent : i \in 1..Len(CallEvents)}

\* The position of a handler in coordinate_analysis: ticketing, scheduling,
\* notification.
Rank(h) ==
    CASE h = "jira_agent" -> 1 [] h = "meetings_agent" -> 2 [] h = "email_agent" -> 3

SubQuery(h) ==
    CASE h = "jira_agent"     -> toolCall.inventory_query
      [] h = "meetings_agent" -> toolCall.sales_query
      [] h = "email_agent"    -> toolCall.market_query

HasNonWhitespace(q) == \E i \in 1..Len(q) : q[i] \notin Whitespace

\* The bracketed tag a tool puts before a handler's result.
TagOf(h) == IF IsAnalysis THEN AnalysisLabel(h) ELSE ToolLabel(toolCall.tool)

\* The labelled section of the i-th handler result.
Section(i) == <<TagOf(ReturnEvents[i].agent), NL>> \o ReturnEvents[i].text

\* part occurs in text as a contiguous run.
Contains(text, part) ==
    \E i \in 0..(Len(text) - Len(part)) : SubSeq(text, i + 1, i + Len(part)) = part

\* C5: every handler result in a tool's output is prefixed by the bracketed
\* tag of its source action; the labelled results are concatenated in the
\* order the invocations were issued, separated by a blank line; in
\* coordinate_analysis that order is ticketing, scheduling, notification.
C5_LabelledInInvocationOrder ==
    (toolResult.status = "returned" /\ ReturnEvents # <<>>) =>
        /\ toolResult.value =
               join(<<NL, NL>>, [i \in 1..Len(ReturnEvents) |-> Section(i)])
        /\ \A i \in 1..Len(ReturnEvents) : Head(Section(i)) \in Labels
        /\ \A i, j \in 1..Len(CallEvents) :
               i < j => Rank(CallEvents[i].agent) < Rank(CallEvents[j].agent)
        /\ \A g, h \in Handlers : g # h => AnalysisLabel(g) # AnalysisLabel(h)

C5_Witness ==
    /\ IsAnalysis
    /\ toolResult.status = "returned"
    /\ Len(ReturnEvents) = 3

\* C6 as stated: when one handler invocation of a batch call fails, the
\* results of the other requested handlers are still in the returned text.
C6_OthersIncludedOnAnyFailure ==
    (IsAnalysis /\ ToolDone
       /\ \E h \in InvokedSet : handlerOut[h] # [kind |-> "return", text |-> OkText]) =>
        /\ toolResult.status = "returned"
        /\ \A h \in Handlers :
               (HasNonWhitespace(SubQuery(h)) /\ handlerOut[h].kind = "return") =>
                   Contains(toolResult.value,
                            <<AnalysisLabel(h), NL>> \o handlerOut[h].text)

\* C6, amended: a handler failure reported inside the text the handler
\* returns leaves every requested handler's labelled result in the returned
\* text; a handler invocation that raises makes coordinate_analysis raise
\* that exception, and no aggregated text is returned.
C6_ReportedFailureKeepsOthers ==
    (IsAnalysis /\ ToolDone) =>
        /\ (\A h \in InvokedSet : handlerOut[h].kind = "return") =>
               /\ toolResult.status = "returned"
               /\ \A h \in Handlers :
                      HasNonWhitespace(SubQuery(h)) =>
                          Contains(toolResult.value,
                                   <<AnalysisLabel(h), NL>> \o handlerOut[h].text)
        /\ (\E h \in InvokedSet : handlerOut[h].kind = "raise") =>
               /\ toolResult.status = "raised"
               /\ toolResult.value = HandlerError
               /\ Len(RaiseEvents) = 1

C6_Witness ==
    /\ IsAnalysis
    /\ toolResult.status = "returned"
    /\ Len(ReturnEvents) = 3
    /\ handlerOut["jira_agent"].text = FailedText
    /\ handlerOut["meetings_agent"].text = OkText
    /\ handlerOut["email_agent"].text = OkText

\* C7 as stated: the handlers a batch call invokes are exactly those whose
\* sub-query has a non-whitespace character.
C7_InvokedIffNonBlank ==
    (IsAnalysis /\ ToolDone) =>
        InvokedSet = {h \in Handlers : HasNonWhitespace(SubQuery(h))}

\* C7, amended: a batch call invokes a handler if and only if its sub-query
\* has a non-whitespace character and no handler invoked before it in that
\* call raised; a whitespace-only sub-query invokes nothing.
C7_InvokedIffNonBlankAndNoEarlierRaise ==
    (IsAnalysis /\ ToolDone) =>
        /\ InvokedSet =
               {h \in Handlers :
                   /\ HasNonWhitespace(SubQuery(h))
                   /\ \A g \in Handlers :
                          (Rank(g) < Rank(h) /\ HasNonWhitespace(SubQuery(g))) =>
                              handlerOut[g].kind # "raise"}
        /\ Len(CallEvents) = Cardinality(InvokedSet)
        /\ \A i \in 1..Len(CallEvents) :
               CallEvents[i].text = SubQuery(CallEvents[i].agent)

C7_Witness ==
    /\ IsAnalysis
    /\ toolResult.status = "returned"
    /\ toolCall.inventory_query = <<" ", " ">>
    /\ toolCall.sales_query = <<" ", "a">>
    /\ toolCall.market_query = <<>>
    /\ InvokedSet = {"meetings_agent"}

\* C8: a batch call whose three sub-queries are all empty or whitespace-only
\* returns the fixed "nothing requested" text and invokes no handler.
C8_NothingRequested ==
    (IsAnalysis /\ ToolDone /\ \A h \in Handlers : ~HasNonWhitespace(SubQuery(h))) =>
        /\ toolResult.status = "returned"
        /\ toolResult.value =
               <<"No analysis was requested. Please specify at least one query.">>
        /\ toolResult.events = <<>>

C8_Witness ==
    /\ IsAnalysis
    /\ ToolDone
    /\ toolCall.inventory_query = <<" ">>
    /\ toolCall.sales_query = <<>>
    /\ toolCall.market_query = <<" ", " ">>

\* ------------------------------------------------- the entrypoint (Spec)

\* C1: every call of agent_invocation ends in a text and never in an
\* exception; when a step inside it raised, the text is "Error: " followed
\* by the exception's message.
C1_EntrypointAlwaysReturnsText ==
    /\ eret.kind \in {"pending", "text"}
    /\ epc = "done" =>
           /\ eret.kind = "text"
           /\ eexc.at # "none" => eret.value = <<"Error: ">> \o eexc.msg

C1_Witness ==
    /\ epc = "done"
    /\ eexc.at = "query"
    /\ eret = [kind |-> "text", value |-> <<"Error: ", "model call failed">>]

EmptyPrompt(p) ==
    /\ p.kind = "dict"
    /\ \/ p.prompt.type = "absent"
       \/ p.prompt.type = "str" /\ p.prompt.text = <<>>

\* C2: a request without a `prompt` field, or with an empty one, is answered
\* with a text starting with "Error:" and without an exception leaving the
\* entrypoint; no coordinator is constructed for it and no handler is invoked.
C2_EmptyPromptRejected ==
    [][(EmptyPrompt(payload) /\ epc \in {"log", "extract", "except"}) =>
          /\ coords' = coords
          /\ agents' = agents
          /\ frames' = frames
          /\ epc' \in {"extract", "except", "done"}
          /\ epc' = "done" =>
                 /\ eret'.kind = "text"
                 /\ Head(eret'.value) = "Error: "
          /\ (epc = "extract" /\ epc # epc') =>
                 /\ epc' = "done"
                 /\ eexc' = NoException]_vars

C2_Witness ==
    /\ epc = "done"
    /\ payload = [kind |-> "dict", prompt |-> [type |-> "str", text |-> <<>>],
                  serializable |-> TRUE]
    /\ eret = [kind |-> "text", value |-> <<"Error: ", "No prompt provided in payload">>]
    /\ served = 1
    /\ Len(coords) = 1

\* -------------------------------------- one coordinator (SpecRoute, SpecCoord)

Blank(prompt) == ~HasNonWhitespace(prompt)

\* The handlers invoked so far during thread t's route call.
InvokedHandlers(t) ==
    UNION {{frames[t].tools[k].invoked[i].agent : i \in 1..Len(frames[t].tools[k].invoked)} :
               k \in 1..Len(frames[t].tools)}

\* C3 as stated: for an empty or whitespace-only transcript query fails
\* before the session is created or called and before any handler runs.
C3_BlankTranscriptFailsFirst ==
    \A t \in Threads :
        (frames[t].pc # "idle" /\ Blank(frames[t].prompt)) =>
            /\ frames[t].pc \in {"check", "done"}
            /\ frames[t].pc = "done" => frames[t].result.kind = "raise"
            /\ frames[t].created = None
            /\ frames[t].session = None
            /\ frames[t].tools = <<>>

\* C3, amended: query does not validate its transcript.  For an empty or
\* whitespace-only transcript on a coordinator without a session it creates
\* the session and passes the transcript to it unchanged, as for any other
\* transcript; the only failure it can end in is the session's own, and
\* handlers run whenever the session calls them.
C3_BlankTranscriptReachesSession ==
    \A t \in Threads :
        Blank(frames[t].prompt) =>
            /\ frames[t].pc \in {"assign", "call", "running"} =>
                   /\ frames[t].created \in 1..Len(agents)
                   /\ agents[frames[t].created].owner = frames[t].coord
            /\ (\/ frames[t].pc = "running"
                \/ frames[t].pc = "done" /\ frames[t].result.kind \in {"text", "raise"}) =>
                   /\ frames[t].session = frames[t].created
                   /\ agents[frames[t].session].messages # <<>>
                   /\ agents[frames[t].session].messages[
                          Len(agents[frames[t].session].messages)] = frames[t].prompt
            /\ frames[t].pc = "done" /\ frames[t].result.kind = "raise" =>
                   frames[t].result.value = DispatchError

C3_Witness ==
    /\ frames["t1"].pc = "done"
    /\ frames["t1"].prompt = <<" ">>
    /\ frames["t1"].result.kind = "text"
    /\ frames["t1"].session # None
    /\ InvokedHandlers("t1") # {}

Completed(t) == frames[t].pc = "done" /\ frames[t].result.kind = "text"

\* C4 as stated: every completed route call on a transcript with content has
\* invoked ticketing, scheduling and notification at least once each, and its
\* response has one labelled section per invoked action.
C4_AllThreeAlwaysInvoked ==
    \A t \in Threads :
        (Completed(t) /\ ~Blank(frames[t].prompt)) =>
            /\ InvokedHandlers(t) = Handlers
            /\ \A h \in InvokedHandlers(t) :
                   \E x \in Labels : Contains(frames[t].result.value, <<x>>)

\* C4, amended: a route call that returns a response has handed the transcript to a
\* session that holds the policy and all four routing tools; which handlers
\* run is the session's choice (any of the three, possibly none); each tool
\* call that returns gives the session one labelled section per handler it
\* invoked, and one that raises gives it none; the response is the session's
\* own final text.
C4_SessionChoosesHandlers ==
    \A t \in Threads :
        (Completed(t) /\ ~Blank(frames[t].prompt)) =>
            /\ agents[frames[t].session].tools =
                   {"jira_tickets", "set_meeting", "send_email", "coordinate_analysis"}
            /\ agents[frames[t].session].system_prompt = SystemPrompt
            /\ agents[frames[t].session].messages # <<>>
            /\ InvokedHandlers(t) \subseteq Handlers
            /\ \A k \in 1..Len(frames[t].tools) :
                   LET call == frames[t].tools[k]
                   IN IF call.status = "returned"
                      THEN /\ call.sections = Len(call.invoked)
                           /\ \A i \in 1..Len(call.invoked) : call.invoked[i].ev = "return"
                      ELSE /\ call.sections = 0
                           /\ call.invoked[Len(call.invoked)].ev = "raise"
            /\ frames[t].result.value \in FinalTexts

C4_Witness ==
    /\ Completed("t1")
    /\ ~Blank(frames["t1"].prompt)
    /\ InvokedHandlers("t1") = Handlers
    /\ frames["t1"].tools[1].sections = 3

\* C9: in a sequence of route calls on one coordinator the session is
\* constructed once, on the first call, and every later call passes its
\* transcript to that session and returns the session's text.
C9_LaterCallsReuseSession ==
    /\ Len(agents) <= 1
    /\ (/\ frames["t1"].pc = "done"
        /\ frames["t1"].result.kind # "raise"
        /\ ~Blank(frames["t1"].prompt)) =>
           /\ frames["t1"].result.kind = "text"
           /\ frames["t1"].session = coords[frames["t1"].coord].agent
           /\ agents[frames["t1"].session].messages # <<>>
           /\ agents[frames["t1"].session].messages[
                  Len(agents[frames["t1"].session].messages)] = frames["t1"].prompt

\* C10: two concurrent route calls on a coordinator without a session
\* construct the session at most once.
C10_SessionConstructedAtMostOnce ==
    \A c \in 1..Len(coords) :
        Cardinality({a \in 1..Len(agents) : agents[a].owner = c}) <= 1

\* C11: when the decision-making process fails during a route call, the
\* failure leaves query as that failure and no text is returned, whatever the
\* handlers had produced before.
C11_SessionFailureLeavesQuery ==
    [][\A t \in Threads :
          (frames[t].pc = "unwind" /\ frames'[t] # frames[t]) =>
              /\ frames'[t].pc = "done"
              /\ frames'[t].result = [kind |-> "raise", value |-> DispatchError]
              /\ frames'[t].tools = frames[t].tools]_vars

C11_Witness ==
    /\ frames["t1"].pc = "done"
    /\ frames["t1"].result = [kind |-> "raise", value |-> DispatchError]
    /\ frames["t1"].tools # <<>>
    /\ frames["t1"].tools[1].status = "returned"
    /\ frames["t1"].tools[1].sections = 3

\* ------------------------------------------ notification handler (SpecMail)

\* C12: send_sns_email never raises: whatever fails during a call, the
\* construction of the publish client included, the call returns the
\* structured result with status "error" and the failure text in its message.
C12_NeverRaisesOutward ==
    mail.pc = "done" =>
        /\ mail.result.kind = "return"
        /\ mail.publish.kind # "return" =>
               /\ mail.result.value.status = "error"
               /\ Len(mail.result.value.message) = 2

\* C13: every returned result is {status, message} with status "success" or
\* "error"; status is "success" exactly when publish returned without
\* raising, and then message contains the MessageId publish returned.
C13_ResultShape ==
    (mail.pc = "done" /\ mail.result.kind = "return") =>
        /\ DOMAIN mail.result.value = {"status", "message"}
        /\ mail.result.value.status \in {"success", "error"}
        /\ mail.result.value.status = "success" <=> mail.publish.kind = "return"
        /\ mail.publish.kind = "return" =>
               Contains(mail.result.value.message, <<mail.publish.response.MessageId>>)

C13_Witness ==
    /\ mail.pc = "done"
    /\ mail.publish.kind = "return"
    /\ mail.publish.response.MessageId = "id-2"
    /\ mail.result.kind = "return"
    /\ mail.result.value.status = "success"
    /\ mail.calls = 1
    /\ Len(published) = 2
    /\ published[1].Subject # published[2].Subject

\* C14: every publish request, whatever the subject and message, is addressed
\* to the one hardcoded topic and carries the caller's subject and message
\* unchanged.
C14_OneChannelSameContent ==
    /\ \A i \in 1..Len(published) : published[i].TopicArn = SNS_TOPIC_ARN
    /\ mail.publish.kind # "none" =>
           /\ published # <<>>
           /\ published[Len(published)] =
                  [TopicArn |-> "arn:aws:sns:us-west-2:905418322763:test",
                   Message |-> mail.message, Subject |-> mail.subject]
    /\ Len(published) <= mail.calls + 1

C14_Witness ==
    /\ Len(published) = 2
    /\ published[1].Subject = <<"Sprint Tasks">>
    /\ published[1].Message = <<"a", " ", "a">>
    /\ published[2].Subject = <<>>
    /\ published[2].TopicArn = published[1].TopicArn
    /\ mail.publish.kind = "raise"

\* --------------------------------------------- ticketing handler (SpecTicket)

\* C15: whatever the arguments and the random draws, the key is a prefix from
\* {DEV, OPS, TEST, PROD, SEC}, a dash and three digits of a number in
\* 100..999; the status is To Do, In Progress or Done, the priority Low,
\* Medium or High, and the creator one of the two fixed names.
C15_TicketVocabulary ==
    ticket.pc = "done" =>
        LET v == ticket.result.value
        IN /\ Len(v.key) = 5
           /\ v.key[1] \in {"DEV", "OPS", "TEST", "PROD", "SEC"}
           /\ v.key[2] = "-"
           /\ \A i \in 3..5 : IsDigitChar(v.key[i])
           /\ v.key[3] # "0"
           /\ ticket.rnd.issue_number \in 100..999
           /\ SubSeq(v.key, 3, 5) = Digits(ticket.rnd.issue_number)
           /\ v.fields.status.name \in {"To Do", "In Progress", "Done"}
           /\ v.fields.priority.name \in {"Low", "Medium", "High"}
           /\ v.fields.creator.displayName \in {"System Agent", "Automation Bot"}

C15_Witness ==
    /\ ticket.pc = "done"
    /\ ticket.result.value.key = <<"SEC", "-", "9", "9", "9">>
    /\ ticket.result.value.fields.status.name = "In Progress"
    /\ ticket.result.value.fields.priority.name = "High"
    /\ ticket.result.value.fields.creator.displayName = "System Agent"

\* C16: for string arguments the call always returns, and the record has
\* exactly the keys id, key, self and fields, with fields holding summary,
\* description, status.name, priority.name and creator.displayName/active;
\* summary and description are the caller's, unchanged; a tenant_id left out
\* is "default".
C16_PopulatedRecord ==
    ticket.pc = "done" =>
        LET v == ticket.result.value
        IN /\ ticket.result.kind = "return"
           /\ DOMAIN v = {"id", "key", "self", "fields"}
           /\ DOMAIN v.fields = {"summary", "description", "status", "priority", "creator"}
           /\ DOMAIN v.fields.status = {"name"}
           /\ DOMAIN v.fields.priority = {"name"}
           /\ DOMAIN v.fields.creator = {"displayName", "active"}
           /\ v.id # <<>> /\ v.key # <<>> /\ v.self # <<>>
           /\ v.fields.summary = ticket.args.summary
           /\ v.fields.description = ticket.args.description
           /\ "tenant_id" \notin DOMAIN ticket.args =>
                  ticket.result.printed[1][2] = "default"
           /\ "tenant_id" \in DOMAIN ticket.args =>
                  ticket.result.printed[1][2] = ticket.args.tenant_id

C16_Witness ==
    /\ ticket.pc = "done"
    /\ "tenant_id" \notin DOMAIN ticket.args
    /\ ticket.args.summary = <<"Fix login bug">>
    /\ ticket.args.description = <<>>
    /\ ticket.result.value.fields.summary = <<"Fix login bug">>
    /\ ticket.result.value.id = <<"3", "0", "0", "0", "0">>

\* ------------------------------------------ scheduling handler (SpecMeeting)

\* A line of the document without the indentation of the template.
Unindent(line) == IF line # <<>> /\ Head(line) = Indent THEN Tail(line) ELSE line

MeetingReturned == meeting.pc = "done" /\ meeting.result.kind = "return"

\* The lines of the returned document that are not blank, unindented.
DocLines == SelectSeq([k \in 1..Len(meeting.result.value) |->
                          Unindent(meeting.result.value[k])],
                      LAMBDA line : line # <<>>)

\* The value of the first line that begins with a field name.
FieldValue(name) ==
    Tail(DocLines[CHOOSE k \in 1..Len(DocLines) :
                      /\ Head(DocLines[k]) = name
                      /\ \A j \in 1..(k - 1) : Head(DocLines[j]) # name])

\* The sampled dates and times that name an instant.
GoodDates == Dates \ {<<"2", "0", "2", "5", "-", "0", "2", "-", "2", "9">>, <<"D", "e", "c", " ", "1", "9">>}
GoodTimes == Times \ {<<"2", "4", ":", "0", "0">>}

Parseable ==
    /\ meeting.pc = "done"
    /\ meeting.args.date \in GoodDates
    /\ meeting.args.time \in GoodTimes

\* The start the arguments name, written YYYYMMDDTHHMMSS.
ExpectedStart ==
    (IF meeting.args.date = <<"2", "0", "2", "5", "-", "1", "-", "5">>
     THEN <<"2", "0", "2", "5", "0", "1", "0", "5">>
     ELSE SelectSeq(meeting.args.date, IsDigitChar))
    \o <<"T">>
    \o (IF meeting.args.time = <<"9", ":", "5">>
        THEN <<"0", "9", "0", "5">>
        ELSE SelectSeq(meeting.args.time, IsDigitChar))
    \o <<"0", "0">>

\* A stamp read back: the last eleven characters are MMDDTHHMMSS, the
\* characters before them the year.
Decode(v) ==
    LET n == Len(v)
    IN [year |-> ToInt(SubSeq(v, 1, n - 11)),
        month |-> ToInt(SubSeq(v, n - 10, n - 9)),
        day |-> ToInt(SubSeq(v, n - 8, n - 7)),
        hour |-> ToInt(SubSeq(v, n - 5, n - 4)),
        minute |-> ToInt(SubSeq(v, n - 3, n - 2)),
        second |-> ToInt(SubSeq(v, n - 1, n))]

\* Days of the year before month m (m = 13: the whole year).
DaysBefore(y, m) ==
    <<0, 31, 59, 90, 120, 151, 181, 212, 243, 273, 304, 334, 365>>[m]
    + (IF m > 2 /\ IsLeap(y) THEN 1 ELSE 0)

\* The number of the day, counting from 0001-01-01 as day 1.
Ordinal(dt) ==
    365 * (dt.year - 1) + ((dt.year - 1) \div 4) - ((dt.year - 1) \div 100)
    + ((dt.year - 1) \div 400) + DaysBefore(dt.year, dt.month) + dt.day

MinuteOfDay(dt) == dt.hour * 60 + dt.minute

IsInstant(dt) ==
    /\ dt.month \in 1..12
    /\ dt.day \in 1..(DaysBefore(dt.year, dt.month + 1) - DaysBefore(dt.year, dt.month))
    /\ dt.hour \in 0..23 /\ dt.minute \in 0..59 /\ dt.second \in 0..59

\* Minutes from instant a to instant b.
MinutesBetween(a, b) == (Ordinal(b) - Ordinal(a)) * 1440 + MinuteOfDay(b) - MinuteOfDay(a)

LastDay == [year |-> 9999, month |-> 12, day |-> 31]

\* The end the arguments name lies after the last minute of year 9999.
EndOverflows ==
    LET start == Decode(ExpectedStart)
    IN Ordinal(start) + ((MinuteOfDay(start) + meeting.args.duration_minutes) \div 1440)
           > Ordinal(LastDay)

\* C17 as stated: for every date and time that parse and every duration, the
\* call returns DTSTART = the start and DTEND = start + duration_minutes
\* minutes, both written YYYYMMDDTHHMMSS.
C17_EndIsStartPlusDuration ==
    Parseable =>
        /\ meeting.result.kind = "return"
        /\ FieldValue("DTSTART:") = ExpectedStart
        /\ Len(FieldValue("DTEND:")) = 15
        /\ IsInstant(Decode(FieldValue("DTEND:")))
        /\ MinutesBetween(Decode(FieldValue("DTSTART:")), Decode(FieldValue("DTEND:")))
               = meeting.args.duration_minutes

\* C17, amended: for every date and time that parse and every duration whose
\* end does not pass year 9999, the call returns DTSTART = the start and
\* DTEND = start + duration_minutes minutes, with carries across hour, day,
\* month and year ends, and DTEND = DTSTART for a duration of zero; a stamp
\* whose year is 1000 or later is written YYYYMMDDTHHMMSS, one of an earlier
\* year may lack the leading zeros of the year; when the end passes year 9999
\* the call fails with OverflowError and returns nothing.
C17_EndIsStartPlusDurationUpTo9999 ==
    Parseable =>
        IF EndOverflows
        THEN meeting.result = [kind |-> "raise", error |-> "OverflowError"]
        ELSE /\ meeting.result.kind = "return"
             /\ LET dtstart == FieldValue("DTSTART:")
                    dtend == FieldValue("DTEND:")
                    start == Decode(dtstart)
                    end == Decode(dtend)
                IN /\ start = Decode(ExpectedStart)
                   /\ IsInstant(end)
                   /\ MinutesBetween(start, end) = meeting.args.duration_minutes
                   /\ meeting.args.duration_minutes = 0 => dtend = dtstart
                   /\ start.year >= 1000 => dtstart = ExpectedStart
                   /\ end.year >= 1000 =>
                          /\ Len(dtend) = 15
                          /\ dtend[9] = "T"
                          /\ \A i \in (1..15) \ {9} : IsDigitChar(dtend[i])
                   /\ start.year < 1000 =>
                          dtstart \in {ExpectedStart, Tail(ExpectedStart)}

C17_Witness ==
    /\ MeetingReturned
    /\ meeting.args.date = <<"2", "0", "2", "5", "-", "1", "2", "-", "3", "1">>
    /\ meeting.args.time = <<"2", "3", ":", "3", "0">>
    /\ meeting.args.duration_minutes = 60
    /\ FieldValue("DTSTART:") = <<"2", "0", "2", "5", "1", "2", "3", "1", "T", "2", "3", "3", "0", "0", "0">>
    /\ FieldValue("DTEND:") = <<"2", "0", "2", "6", "0", "1", "0", "1", "T", "0", "0", "3", "0", "0", "0">>

\* C18: when the date and time do not parse (a date in words, a day the
\* month does not have, an hour of 24), the call fails with an error and
\* returns no document at all.
C18_UnparseableFails ==
    (/\ meeting.pc = "done"
     /\ meeting.args.date \notin GoodDates \/ meeting.args.time \notin GoodTimes) =>
        /\ meeting.result.kind = "raise"
        /\ meeting.result.error = "ValueError"
        /\ DOMAIN meeting.result = {"kind", "error"}

C18_Witness ==
    /\ meeting.pc = "done"
    /\ meeting.args.date = <<"D", "e", "c", " ", "1", "9">>
    /\ meeting.args.time = <<"1", "0", ":", "0", "0">>
    /\ meeting.result.kind = "raise"

\* The lines of the document that hold an ATTENDEE field.
AttendeeLines == SelectSeq(DocLines, LAMBDA line : Head(line) = "ATTENDEE;CN=")

\* C19: the document has one ATTENDEE line per participant, in the
\* participants' order, each name verbatim on its own line (no line for an
\* empty list).
C19_OneAttendeeLinePerParticipant ==
    MeetingReturned =>
        /\ Len(AttendeeLines) = Len(meeting.args.participants)
        /\ \A i \in 1..Len(AttendeeLines) :
               AttendeeLines[i] = <<"ATTENDEE;CN=", meeting.args.participants[i]>>

EventHead ==
    <<"BEGIN:VCALENDAR", "VERSION:2.0", "PRODID:-//Strands Tool//Meeting Scheduler//EN",
      "BEGIN:VEVENT", "UID:", "DTSTAMP:", "DTSTART:", "DTEND:", "SUMMARY:",
      "DESCRIPTION:", "LOCATION:">>

\* C20: every returned document is one event block whose lines (read
\* without their indentation, blank lines aside) are, in order,
\* BEGIN:VCALENDAR, VERSION:2.0, the PRODID line, BEGIN:VEVENT, UID, DTSTAMP,
\* DTSTART, DTEND, SUMMARY with the title unchanged, DESCRIPTION, LOCATION,
\* the ATTENDEE fields, END:VEVENT, END:VCALENDAR; a location or description
\* left out gives an empty value.
C20_OneEventBlockInOrder ==
    MeetingReturned =>
        LET n == Len(DocLines)
        IN /\ n >= 13
           /\ \A k \in 1..11 : Head(DocLines[k]) = EventHead[k]
           /\ \A k \in 12..(n - 2) : Head(DocLines[k]) = "ATTENDEE;CN="
           /\ DocLines[n - 1] = <<"END:VEVENT">>
           /\ DocLines[n] = <<"END:VCALENDAR">>
           /\ meeting.result.value[1] = <<"BEGIN:VCALENDAR">>
           /\ \A k \in 1..4 : Len(DocLines[k]) = 1
           /\ Cardinality({k \in 1..n : Head(DocLines[k]) = "BEGIN:VEVENT"}) = 1
           /\ Cardinality({k \in 1..n : Head(DocLines[k]) = "END:VEVENT"}) = 1
           /\ (n > 13 \/ meeting.args.participants = <<>>)
           /\ FieldValue("SUMMARY:") = meeting.args.title
           /\ FieldValue("DESCRIPTION:") =
                  (IF "description" \in DOMAIN meeting.args
                   THEN meeting.args.description ELSE <<>>)
           /\ FieldValue("LOCATION:") =
                  (IF "location" \in DOMAIN meeting.args
                   THEN meeting.args.location ELSE <<>>)

C20_Witness ==
    /\ MeetingReturned
    /\ "location" \notin DOMAIN meeting.args
    /\ meeting.args.title = <<"Sprint Review">>
    /\ meeting.args.participants = <<"Sarah", "David">>
    /\ FieldValue("LOCATION:") = <<>>
    /\ FieldValue("SUMMARY:") = <<"Sprint Review">>
    /\ Len(DocLines) = 14

\* ------------------------------- two scheduling calls (SpecMeetingPair)

\* The lines of a document that are not blank, unindented.
LinesOf(doc) ==
    SelectSeq([k \in 1..Len(doc) |-> Unindent(doc[k])], LAMBDA line : line # <<>>)

\* The lines of a document that do not hold the named fields.
Without(doc, names) == SelectSeq(LinesOf(doc), LAMBDA line : Head(line) \notin names)

\* The value of the first line of a document that begins with a field name.
ValueIn(doc, name) == Tail(SelectSeq(LinesOf(doc), LAMBDA line : Head(line) = name)[1])

BothReturned ==
    /\ meeting.pc = "second"
    /\ meeting.result.kind = "return"
    /\ meeting.first.result.kind = "return"

\* C21: two calls with the same arguments at different instants return
\* documents with the same DTSTART, DTEND, SUMMARY, DESCRIPTION, LOCATION and
\* ATTENDEE fields; only the UID and DTSTAMP lines may differ.
C21_OnlyStampDiffers ==
    (/\ meeting.pc = "second"
     /\ meeting.args = meeting.first.args
     /\ meeting.now # meeting.first.now) =>
        /\ meeting.result.kind = meeting.first.result.kind
        /\ meeting.result.kind = "raise" => meeting.result = meeting.first.result
        /\ meeting.result.kind = "return" =>
               /\ Len(meeting.result.value) = Len(meeting.first.result.value)
               /\ Without(meeting.result.value, {"UID:", "DTSTAMP:"})
                      = Without(meeting.first.result.value, {"UID:", "DTSTAMP:"})
               /\ \A name \in {"DTSTART:", "DTEND:", "SUMMARY:", "DESCRIPTION:",
                                "LOCATION:"} :
                      ValueIn(meeting.result.value, name)
                          = ValueIn(meeting.first.result.value, name)

C21_Witness ==
    /\ BothReturned
    /\ meeting.args = meeting.first.args
    /\ meeting.args.participants = <<"Sarah", "David">>
    /\ meeting.now.second # meeting.first.now.second
    /\ ValueIn(meeting.result.value, "UID:") # ValueIn(meeting.first.result.value, "UID:")
    /\ ValueIn(meeting.result.value, "DTSTAMP:")
           # ValueIn(meeting.first.result.value, "DTSTAMP:")

\* The second of an instant.
SecondOf(now) == [now EXCEPT !.microsecond = 0]

\* C29: in every returned document the UID is the DTSTAMP value followed by
\* "-strands@tool"; two calls stamped in different seconds have different
\* UIDs, two calls stamped in the same second the same UID, whatever their
\* arguments.
C29_UidIsStampPlusSuffix ==
    /\ (meeting.pc \in {"done", "second"} /\ meeting.result.kind = "return") =>
           /\ ValueIn(meeting.result.value, "UID:")
                  = ValueIn(meeting.result.value, "DTSTAMP:") \o <<"-strands@tool">>
           /\ Len(ValueIn(meeting.result.value, "DTSTAMP:")) = 15
    /\ BothReturned =>
           (ValueIn(meeting.result.value, "UID:") = ValueIn(meeting.first.result.value, "UID:")
               <=> SecondOf(meeting.now) = SecondOf(meeting.first.now))

C29_Witness ==
    /\ BothReturned
    /\ meeting.args # meeting.first.args
    /\ meeting.now # meeting.first.now
    /\ SecondOf(meeting.now) = SecondOf(meeting.first.now)
    /\ ValueIn(meeting.result.value, "UID:") = ValueIn(meeting.first.result.value, "UID:")

\* ------------------------------------ the three handlers (SpecHandlers)

\* C22: no handler operation keeps state between calls: a handler that is
\* not in a call holds nothing of earlier calls, and the outcome of a call is
\* the function of its own arguments and of its own random draws, clock
\* reading or publish outcome, whatever calls went before.
C22_NoRetainedState ==
    /\ ticket.pc = "idle" => ticket = IdleTicket
    /\ meeting.pc = "idle" => meeting = IdleMeeting
    /\ mail.pc = "idle" => [mail EXCEPT !.calls = 0] = IdleMail
    /\ ticket.pc = "done" =>
           /\ ticket.result.value.fields.summary = ticket.args.summary
           /\ ticket.result.value.fields.description = ticket.args.description
           /\ ticket.result.value.key =
                  <<ticket.rnd.project_key, "-">> \o Digits(ticket.rnd.issue_number)
           /\ ticket.result.value.id = Digits(ticket.rnd.issue_id)
           /\ ticket.result.value.fields.status.name = ticket.rnd.status
           /\ ticket.result.value.fields.priority.name = ticket.rnd.priority
           /\ ticket.result.value.fields.creator.displayName = ticket.rnd.displayName
    /\ (meeting.pc = "done" /\ meeting.result.kind = "return") =>
           /\ ValueIn(meeting.result.value, "SUMMARY:") = meeting.args.title
           /\ Decode(ValueIn(meeting.result.value, "DTSTAMP:"))
                  = [k \in DOMAIN meeting.now \ {"microsecond"} |-> meeting.now[k]]
           /\ SelectSeq(LinesOf(meeting.result.value),
                        LAMBDA line : Head(line) = "ATTENDEE;CN=")
                  = (IF meeting.args.participants = <<>> THEN <<>>
                     ELSE << join(<<>>, [i \in 1..Len(meeting.args.participants) |->
                                           <<"ATTENDEE;CN=", meeting.args.participants[i]>>]) >>)
    /\ mail.pc = "done" =>
           CASE mail.publish.kind = "return" ->
                    /\ mail.result.value.status = "success"
                    /\ mail.result.value.message[2] = mail.publish.response.MessageId
             [] mail.publish.kind = "raise" ->
                    /\ mail.result.value.status = "error"
                    /\ mail.result.value.message[2] = mail.publish.e
             [] OTHER -> mail.result.kind = "raise"
    /\ mail.publish.kind # "none" =>
           /\ published[Len(published)].Subject = mail.subject
           /\ published[Len(published)].Message = mail.message

C22_Witness ==
    /\ ticket.pc = "done"
    /\ Len(published) = 2
    /\ published[1].Subject = <<"Sprint Tasks">>
    /\ ticket.args.summary = <<"a">>
    /\ ticket.result.value.fields.summary = <<"a">>

\* ------------------------------------------- entrypoint and coordinators (Spec)

NonEmptyPrompt(p) ==
    p.kind = "dict" /\ p.prompt.type = "str" /\ p.prompt.text # <<>>

\* The coordinator appended by a step is fresh: no session yet, and handlers
\* that no earlier coordinator holds.
FreshCoordinator ==
    /\ Len(coords') = Len(coords) + 1
    /\ SubSeq(coords', 1, Len(coords)) = coords
    /\ LET new == coords'[Len(coords')]
       IN /\ new.agent = None
          /\ \A c \in 1..Len(coords) :
                 /\ new.jira_agent # coords[c].jira_agent
                 /\ new.meetings_agent # coords[c].meetings_agent
                 /\ new.email_agent # coords[c].email_agent

\* A route call is entered on the coordinator appended by the step.
RouteCallEntered ==
    /\ frames["t1"].pc = "idle"
    /\ frames'["t1"].pc = "check"
    /\ frames'["t1"].coord = Len(coords')
    /\ frames'["t1"].prompt = payload.prompt.text

\* C27 as stated: every entrypoint call with a non-empty prompt constructs a
\* fresh coordinator and issues one route call on it.
C27_EveryCallConstructsAndRoutes ==
    [][(NonEmptyPrompt(payload) /\ epc \in {"log", "extract", "construct"}) =>
          /\ epc' \in {"extract", "construct", "query"}
          /\ epc = "construct" => (FreshCoordinator /\ RouteCallEntered)]_vars

\* C27, amended: an entrypoint call with a non-empty string prompt whose
\* payload is logged and whose coordinator construction succeeds constructs a
\* fresh coordinator (no session yet, three handlers of its own) and issues
\* exactly one route call on it; when the logging or the construction
\* raises, no coordinator is kept and no route call is issued.  A route call
\* is entered only in the step that constructs its coordinator, every
\* session is created for the coordinator of the request being served, and
\* no earlier coordinator or session is touched again.
C27_FreshCoordinatorPerCall ==
    [][/\ (NonEmptyPrompt(payload) /\ epc = "construct") =>
              \/ FreshCoordinator /\ RouteCallEntered /\ epc' = "query"
              \/ coords' = coords /\ frames' = frames /\ epc' = "except"
       /\ (NonEmptyPrompt(payload) /\ epc = "log") =>
              /\ coords' = coords /\ frames' = frames
              /\ epc' \in {"extract", "except"}
       /\ (frames["t1"].pc = "idle" /\ frames'["t1"].pc # "idle") =>
              (epc = "construct" /\ FreshCoordinator /\ RouteCallEntered)
       /\ Len(coords') # Len(coords) => (epc = "construct" /\ FreshCoordinator)
       /\ frames["t1"].pc # "idle" =>
              /\ frames["t1"].coord = Len(coords)
              /\ frames'["t1"].pc # "idle" => frames'["t1"].coord = frames["t1"].coord
       /\ \A c \in 1..Len(coords) :
              coords'[c] # coords[c] => (c = Len(coords) /\ frames["t1"].coord = c)
       /\ \A a \in 1..Len(agents) :
              /\ agents'[a].owner = agents[a].owner
              /\ agents'[a] # agents[a] => agents[a].owner = Len(coords)
       /\ Len(agents') # Len(agents) =>
              /\ Len(agents') = Len(agents) + 1
              /\ agents'[Len(agents')].owner = Len(coords)
              /\ coords[Len(coords)].agent = None]_vars

C27_Witness ==
    /\ served = 1
    /\ epc = "query"
    /\ NonEmptyPrompt(payload)
    /\ Len(coords) = 2
    /\ frames["t1"].pc = "running"
    /\ frames["t1"].coord = 2
    /\ coords[1].agent = 1
    /\ coords[2].agent = 2
    /\ agents[1].owner = 1
    /\ agents[2].owner = 2
    /\ Len(agents[1].messages) = 1
    /\ Len(agents[2].messages) = 1

\* --------------------------------- one batch routing call, step by step

\* The labelled sections of a returned text: its bracketed tags.
LabelledSections ==
    SelectSeq(toolResult.value,
              LAMBDA x : x \in {AnalysisLabel(h) : h \in Handlers})

\* The log of a call is a run of invocations, each one a call entry directly
\* followed by the return or the raise of the same handler.
OneAfterAnother ==
    LET ev == toolResult.events
    IN /\ Len(ev) % 2 = 0
       /\ \A i \in 1..Len(ev) :
              IF i % 2 = 1
              THEN /\ ev[i].ev = "call"
                   /\ ev[i + 1].ev \in {"return", "raise"}
                   /\ ev[i + 1].agent = ev[i].agent
              ELSE /\ ev[i].ev \in {"return", "raise"}
                   /\ (i < Len(ev)) => ev[i].ev = "return"

\* C28: within one coordinate_analysis call each handler is invoked at most
\* once, a handler's invocation starts only after the previous handler's
\* invocation has returned, and the returned text has as many labelled
\* sections as handlers were invoked.
C28_OneAtATimeOneSectionEach ==
    (IsAnalysis /\ ToolDone) =>
        /\ \A i, j \in 1..Len(CallEvents) :
               CallEvents[i].agent = CallEvents[j].agent => i = j
        /\ OneAfterAnother
        /\ toolResult.status = "returned" =>
               /\ Len(LabelledSections) = Len(CallEvents)
               /\ Len(LabelledSections) = Len(ReturnEvents)
               /\ \A i \in 1..Len(CallEvents) :
                      LabelledSections[i] = AnalysisLabel(CallEvents[i].agent)

C28_Witness ==
    /\ IsAnalysis
    /\ toolResult.status = "returned"
    /\ toolCall.sales_query = <<" ">>
    /\ Len(CallEvents) = 2
    /\ Len(LabelledSections) = 2
    /\ toolResult.events[2].ev = "return"
    /\ toolResult.events[3] =
           [agent |-> "email_agent", ev |-> "call", text |-> toolCall.market_query]

\* ----------------------------------- the environment file (SpecEnv)

\* update_env_section returned and the sections were read back.
UpdateReturned == update.pc = "read" /\ update.result.kind = "return"

MarkerLike(line) == StartsWith(StripLine(line), MarkerPrefix)
IsMarkerOf(line, name) == StripLine(line) = StartMarker(name)
OtherMarker(line, name) == MarkerLike(line) /\ ~IsMarkerOf(line, name)

EndsWith(text, suffix) ==
    /\ Len(text) >= Len(suffix)
    /\ SubSeq(text, Len(text) - Len(suffix) + 1, Len(text)) = suffix

\* The text after the update begins with the lines that lay before a marker
\* of the section and ends with the lines from the next other marker on;
\* when the section was absent, it begins with the whole old text.
LinesKept(before, after, name) ==
    LET old == ExistingLines(before)
    IN \E p, q \in 0..Len(old) :
          /\ p <= q
          /\ IF \E i \in 1..Len(old) : IsMarkerOf(old[i], name)
             THEN /\ p < q
                  /\ IsMarkerOf(old[p + 1], name)
                  /\ \A i \in (p + 2)..q : ~OtherMarker(old[i], name)
                  /\ q < Len(old) => OtherMarker(old[q + 1], name)
             ELSE p = Len(old)
          /\ StartsWith(after.text, writelines(SubSeq(old, 1, p)))
          /\ EndsWith(after.text, writelines(SubSeq(old, q + 1, Len(old))))
          /\ Len(after.text) >=
                 Len(writelines(SubSeq(old, 1, p)))
                     + Len(writelines(SubSeq(old, q + 1, Len(old))))

HasLine(content, line) == \E i \in 1..Len(content) : StripLine(content[i]) = line
HasMarkerLike(content) == \E i \in 1..Len(content) : MarkerLike(content[i])

\* C23 as stated: an update of section S keeps the lines outside S, and
\* read_env_section gives the same variables for every other section as
\* before the update.
C23_OtherSectionsUnchanged ==
    UpdateReturned =>
        /\ LinesKept(update.before, envFile, update.section_name)
        /\ \A T \in SectionNames \ {update.section_name} :
               update.read[T] = read_env_section(update.before, T)

\* C23, amended: an update of section S keeps every line before the marker
\* of S and from the next section marker on, unchanged and in order, whether
\* S was first, in the middle, last or absent; read_env_section gives the
\* same variables as before for every other section T, provided no line of
\* the new content is the marker of T.
C23_OtherSectionsUnchangedByPlainContent ==
    UpdateReturned =>
        /\ LinesKept(update.before, envFile, update.section_name)
        /\ \A T \in SectionNames \ {update.section_name} :
               ~HasLine(update.section_content, StartMarker(T)) =>
                   update.read[T] = read_env_section(update.before, T)

C23_Witness ==
    /\ UpdateReturned
    /\ update.section_name = "PHASE1_RUNTIME"
    /\ update.section_content = <<Exported("B", "2"), Comment, <<"junk">>, <<>>>>
    /\ read_env_section(update.before, "PHASE1_RUNTIME")
           = {[key |-> <<"A">>, value |-> <<"3">>]}
    /\ update.read["PHASE1_RUNTIME"] = {[key |-> <<"B">>, value |-> <<"2">>]}
    /\ update.read["AUTHENTICATION"] = {[key |-> <<"B">>, value |-> <<"2">>]}
    /\ EndsWith(envFile.text, writelines(Terminated(<<Notes, Var("B", "1")>>)))

\* What a content line defines: nothing for a blank line, a comment or a
\* line without "="; else the key before the first "=" and the value after
\* it, a leading "export " left out.
Defines(line) ==
    LET l == StripLine(line)
    IN l # <<>> /\ Head(l) # "#" /\ \E i \in 1..Len(l) : l[i] = "="

Body(line) ==
    LET l == StripLine(line)
    IN IF Len(l) >= 2 /\ l[1] = "export" /\ l[2] = " " THEN Tail(Tail(l)) ELSE l

KeyOf(line) == SubSeq(Body(line), 1, FirstEquals(Body(line)) - 1)
ValueOf(line) ==
    SubSeq(Body(line), FirstEquals(Body(line)) + 1, Len(Body(line)))

\* The variables a content defines, the last line winning for a key.
DefinedBy(content) ==
    {[key |-> KeyOf(content[i]), value |-> ValueOf(content[i])] :
        i \in {j \in 1..Len(content) :
                  /\ Defines(content[j])
                  /\ \A k \in (j + 1)..Len(content) :
                         Defines(content[k]) => KeyOf(content[k]) # KeyOf(content[j])}}

\* Two markers of the section with no other section's marker between them.
RepeatedMarker(file, name) ==
    LET old == ExistingLines(file)
    IN \E i, j \in 1..Len(old) :
          /\ i < j
          /\ IsMarkerOf(old[i], name)
          /\ IsMarkerOf(old[j], name)
          /\ \A k \in (i + 1)..(j - 1) : ~OtherMarker(old[k], name)

\* C24 as stated: after a successful update of section S, read_env_section
\* gives for S exactly the variables the content defines.
C24_ReadsBackContent ==
    UpdateReturned =>
        update.read[update.section_name] = DefinedBy(update.section_content)

\* C24, amended: after a successful update of section S with a content none
\* of whose lines begins with "# === ", on a file that does not hold two
\* markers of S in a row, read_env_section gives for S exactly the variables
\* defined by the content's KEY=VALUE and export KEY=VALUE lines, the last
\* value winning, and none of those S held before.
C24_ReadsBackPlainContent ==
    (/\ UpdateReturned
     /\ ~HasMarkerLike(update.section_content)
     /\ ~RepeatedMarker(update.before, update.section_name)) =>
        update.read[update.section_name] = DefinedBy(update.section_content)

C24_Witness ==
    /\ UpdateReturned
    /\ update.section_name = "PHASE1_RUNTIME"
    /\ update.section_content = Terminated(<<Var("A", "1"), Var("A", "2")>>)
    /\ read_env_section(update.before, "PHASE1_RUNTIME")
           = {[key |-> <<"A">>, value |-> <<"3">>]}
    /\ update.read["PHASE1_RUNTIME"] = {[key |-> <<"A">>, value |-> <<"2">>]}

\* C25: update_env_section writes the new text to the temporary file, which
\* then replaces the target; when the write or the replace fails, the
\* temporary file is removed, the error is raised again and the target has
\* the content it had before the call.
C25_AtomicWrite ==
    [][/\ envFile' # envFile =>
              /\ update.pc = "replace"
              /\ tempFile = FileOf(writelines(update.new_lines))
              /\ envFile' = tempFile
              /\ tempFile' = NoFile
       /\ (update.pc \in {"write", "replace"} /\ update'.pc = "except") =>
              envFile' = update.before
       /\ update.pc = "except" =>
              /\ update'.pc = "done"
              /\ update'.result = [kind |-> "raise", exc |-> OSError]
              /\ tempFile' = NoFile
              /\ envFile' = update.before
       /\ (update.pc = "replace" /\ update'.pc = "done") =>
              /\ update'.result = [kind |-> "return"]
              /\ envFile' = FileOf(writelines(update.new_lines))]_vars

C25_Witness ==
    /\ update.pc = "done"
    /\ update.result.kind = "raise"
    /\ update.before.exists
    /\ update.before.text # writelines(update.new_lines)
    /\ envFile = update.before
    /\ tempFile = NoFile
    /\ backups = <<update.before.text>>

\* Two calls in a row with the same section and content, both successful.
SameUpdateTwice ==
    /\ update.pc \in {"done", "read"}
    /\ update.first # NoFirst
    /\ update.result.kind = "return"
    /\ update.first.result.kind = "return"
    /\ update.first.section_name = update.section_name
    /\ update.first.section_content = update.section_content

\* The file ends in a line of spaces that has no "\n".
EndsInOpenBlankLine(file) ==
    LET old == ExistingLines(file)
    IN /\ old # <<>>
       /\ StripLine(old[Len(old)]) = <<>>
       /\ old[Len(old)][Len(old[Len(old)])] # NL

\* C30 as stated: a second update with the same section and content leaves
\* the file as the first one left it.
C30_SecondUpdateChangesNothing ==
    SameUpdateTwice => envFile = update.first.after

\* C30, amended: a second update with the same section and content leaves
\* the file as the first one left it, whether or not the section existed
\* before, provided no line of the content begins with "# === " and the
\* file did not end in a line of spaces without a line end.
C30_SecondPlainUpdateChangesNothing ==
    (/\ SameUpdateTwice
     /\ ~HasMarkerLike(update.section_content)
     /\ ~EndsInOpenBlankLine(update.first.before)) =>
        envFile = update.first.after

C30_Witness ==
    /\ SameUpdateTwice
    /\ update.section_name = "PHASE1_RUNTIME"
    /\ update.section_content = <<Var("A", "1")>>
    /\ ~update.first.before.exists
    /\ update.first.after # update.first.before
    /\ envFile = update.first.after
    /\ backups = <<update.first.after.text>>

\* ------------------------------- the deployment script (SpecDeploy)

\* The tools the script runs, in the order of its steps.
Steps == <<"--version", "configure", "launch", "status">>

HasRun(d, cmd) == \E i \in 1..Len(d.ran) : d.ran[i].cmd = cmd
Returned0(d, cmd) ==
    \E i \in 1..Len(d.ran) : d.ran[i].cmd = cmd /\ d.ran[i].rc = 0

\* What holds of the script at any moment.
InOrder(d) ==
    /\ Len(d.ran) <= Len(Steps)
    /\ \A i \in 1..Len(d.ran) : d.ran[i].cmd = Steps[i]
    /\ (d.pc # "idle" /\ ~d.app_py) =>
           (d.ran = <<>> /\ d.pc = "exited" /\ d.exit = "1")
    /\ HasRun(d, "launch") => Returned0(d, "configure")
    /\ HasRun(d, "status") => Returned0(d, "launch")
    /\ (HasRun(d, "configure") /\ ~Returned0(d, "configure")) =>
           (d.pc = "exited" /\ d.exit = "1" /\ Len(d.ran) = 2)
    /\ (HasRun(d, "launch") /\ ~Returned0(d, "launch")) =>
           (d.pc = "exited" /\ d.exit = "1" /\ Len(d.ran) = 3)
    /\ d.exit = "0" => Len(d.ran) = Len(Steps)

\* C26: the deployment script runs its steps in order and stops at the first
\* failure: without app.py it exits with status 1 and runs no tool; launch is
\* run only after configure returned 0; status only after launch returned 0;
\* the PHASE1_RUNTIME section of .env is written only when a runtime ARN was
\* found in the status output.
C26_StepsInOrder ==
    [][/\ InOrder(deploy')
       /\ Len(deploy'.ran) >= Len(deploy.ran)
       /\ deploy.pc = "exited" => deploy' = deploy
       /\ (envFile' # envFile \/ backups' # backups) =>
              /\ deploy.pc = "save"
              /\ HasRun(deploy, "status")
              /\ deploy.runtime_arn # NoArn
              /\ Head(deploy.runtime_arn) = ArnPrefix
              /\ Contains(deploy.stdout, deploy.runtime_arn)
       /\ envFile' # envFile =>
              {[key |-> <<"AGENTCORE_RUNTIME_ARN_SIMPLE">>,
                value |-> deploy.runtime_arn],
               [key |-> <<"AGENTCORE_AUTH_TYPE">>, value |-> <<"iam">>]}
                  \subseteq read_env_section(envFile', "PHASE1_RUNTIME")]_vars

C26_Witness ==
    /\ deploy.pc = "exited"
    /\ deploy.exit = "0"
    /\ Len(deploy.ran) = 4
    /\ deploy.stdout = <<ArnPrefix, NL, ArnPrefix, "us-west-2:1:runtime/b", "|", NL>>
    /\ deploy.runtime_arn = <<ArnPrefix, "us-west-2:1:runtime/b">>
    /\ backups # <<>>
    /\ [key |-> <<"AGENTCORE_RUNTIME_ARN_SIMPLE">>,
        value |-> <<ArnPrefix, "us-west-2:1:runtime/b">>]
           \in read_env_section(envFile, "PHASE1_RUNTIME")
    /\ read_env_section(envFile, "AUTHENTICATION")
           = {[key |-> <<"B">>, value |-> <<"2">>]}

====
